---- MODULE Spec2Model ----
(***************************************************************************)
(* Compatibility engine of ArmaTuPc: GestorFiltros and                     *)
(* ValidadorCompatibilidad (src/etapa2_interfaz/filtros.py) over the       *)
(* normalized catalog written by src/etapa1_normalizar/clases.py.          *)
(*                                                                         *)
(* Python values are encoded as follows.                                   *)
(*   dict    a TLA+ record (function from key strings); a missing key is   *)
(*           a key outside DOMAIN; {} is the empty function <<>>           *)
(*   None    [t |-> "None"]                                                *)
(*   number  [t |-> "num", v |-> n]                                        *)
(*   str     [t |-> "str", v |-> "..."]; Chars gives its characters        *)
(*   list    a TLA+ sequence                                               *)
(* An operation that ends in a Python exception yields                     *)
(* [estado |-> "raised", excepcion |-> ...] instead of a returned value.   *)
(***************************************************************************)
EXTENDS Integers, Sequences, FiniteSets, TLC

\* datos          GestorFiltros.datos, the loaded catalog: category -> list of records
\* configuracion  the build handed to the validators (configuracion_actual)
\* llamada        the last operation called on the engine, with its arguments
\* resultado      what that operation returned, or the exception it ended in
\* semilla        the hash order of the process: the order in which list(s) yields
\*                the strings of a set s, fixed when the interpreter starts
\* anterior       history: an earlier call with the build it was made on and its
\*                result, kept to compare calls; SinHistoria where none is kept
VARIABLES datos, configuracion, llamada, resultado, semilla, anterior

vars == <<datos, configuracion, llamada, resultado, semilla, anterior>>

----------------------------------------------------------------------------
(* Python values *)

None == [t |-> "None"]
Num(n) == [t |-> "num", v |-> n]
Str(s) == [t |-> "str", v |-> s]
EmptyDict == <<>>

IsScalar(x) == "t" \in DOMAIN x
IsNone(x) == IsScalar(x) /\ x.t = "None"
IsNum(x) == IsScalar(x) /\ x.t = "num"
IsStr(x) == IsScalar(x) /\ x.t = "str"
\* isinstance(x, dict)
IsDict(x) == ~IsScalar(x)

\* d.get(k, default)
Get(d, k, default) == IF k \in DOMAIN d THEN d[k] ELSE default

\* d.get(k)
Get1(d, k) == Get(d, k, None)

\* bool(x) for the scalars and dicts the engine tests: None, 0, '' and {} are falsy
Truthy(x) ==
  IF IsNone(x) THEN FALSE
  ELSE IF IsNum(x) THEN x.v # 0
  ELSE IF IsStr(x) THEN x.v # ""
  ELSE DOMAIN x # {}

\* x == y of Python between scalars (None, numbers and strings never compare equal
\* across types)
PyEq(x, y) == x = y

----------------------------------------------------------------------------
(* str methods used by the form-factor predicate *)

UpperCase == <<"A","B","C","D","E","F","G","H","I","J","K","L","M",
               "N","O","P","Q","R","S","T","U","V","W","X","Y","Z">>
LowerCase == <<"a","b","c","d","e","f","g","h","i","j","k","l","m",
               "n","o","p","q","r","s","t","u","v","w","x","y","z">>
Whitespace == {" ", "\t", "\n"}

LowerChar(c) ==
  IF \E i \in 1..Len(UpperCase) : UpperCase[i] = c
  THEN LowerCase[CHOOSE i \in 1..Len(UpperCase) : UpperCase[i] = c]
  ELSE c

\* s.lower()
Lower(s) == [i \in 1..Len(s) |-> LowerChar(s[i])]

\* s.replace(a, b) for single characters a, b
Replace(s, a, b) == [i \in 1..Len(s) |-> IF s[i] = a THEN b ELSE s[i]]

RECURSIVE LStrip(_)
LStrip(s) == IF s # <<>> /\ Head(s) \in Whitespace THEN LStrip(Tail(s)) ELSE s

RECURSIVE RStrip(_)
RStrip(s) ==
  IF s # <<>> /\ s[Len(s)] \in Whitespace THEN RStrip(SubSeq(s, 1, Len(s) - 1)) ELSE s

\* s.strip()
Strip(s) == RStrip(LStrip(s))

\* the characters of the strings that reach a str method
Chars(s) ==
  CASE s = "" -> <<>>
    [] s = " " -> <<" ">>
    [] s = "ATX" -> <<"A","T","X">>
    [] s = "atx" -> <<"a","t","x">>
    [] s = "ATX " -> <<"A","T","X"," ">>
    [] s = " atx" -> <<" ","a","t","x">>
    [] s = "Micro-ATX" -> <<"M","i","c","r","o","-","A","T","X">>
    [] s = "micro-atx" -> <<"m","i","c","r","o","-","a","t","x">>
    [] s = "micro_atx" -> <<"m","i","c","r","o","_","a","t","x">>
    [] s = "mATX" -> <<"m","A","T","X">>
    [] s = "µATX" -> <<"µ","A","T","X">>
    [] s = "uATX" -> <<"u","A","T","X">>
    [] s = "Mini-ITX" -> <<"M","i","n","i","-","I","T","X">>
    [] s = "ITX" -> <<"I","T","X">>
    [] s = "mITX" -> <<"m","I","T","X">>
    [] s = "E-ATX" -> <<"E","-","A","T","X">>
    [] s = "E_ATX" -> <<"E","_","A","T","X">>
    [] s = "XL-ATX" -> <<"X","L","-","A","T","X">>
    [] s = "SFX" -> <<"S","F","X">>
    [] s = "Flex" -> <<"F","l","e","x">>

----------------------------------------------------------------------------
(* GestorFiltros._es_case_compatible_con_motherboard *)

sEATX == <<"e","-","a","t","x">>
sXLATX == <<"x","l","-","a","t","x">>
sATXl == <<"a","t","x">>
sMicroATXl == <<"m","i","c","r","o","-","a","t","x">>
sMiniITXl == <<"m","i","n","i","-","i","t","x">>

\* form_factor_sizes.get(name, -1)
form_factor_sizes(name) ==
  IF name = sEATX THEN 4
  ELSE IF name = sXLATX THEN 3
  ELSE IF name = sATXl THEN 2
  ELSE IF name = sMicroATXl THEN 1
  ELSE IF name = sMiniITXl THEN 0
  ELSE -1

\* name_variations.get(name, name)
name_variations(name) ==
  IF name \in {<<"m","a","t","x">>, <<"µ","a","t","x">>, <<"u","a","t","x">>}
  THEN sMicroATXl
  ELSE IF name \in {<<"m","i","t","x">>, <<"i","t","x">>} THEN sMiniITXl
  ELSE name

\* the *_clean value: strip, lower, '_' -> '-', then the alias table
NormalizarFormFactor(s) == name_variations(Replace(Lower(Strip(s)), "_", "-"))

\* the predicate with the size comparison the wrong way round
es_case_compatible_invertido(case_support, mb_form_factor) ==
  IF ~Truthy(case_support) \/ ~Truthy(mb_form_factor) THEN FALSE
  ELSE
    LET case_support_clean == NormalizarFormFactor(Chars(case_support.v))
        mb_form_factor_clean == NormalizarFormFactor(Chars(mb_form_factor.v))
        case_size == form_factor_sizes(case_support_clean)
        mb_size == form_factor_sizes(mb_form_factor_clean)
    IN IF case_support_clean = mb_form_factor_clean THEN TRUE
       ELSE IF case_size = -1 \/ mb_size = -1
            THEN case_support_clean = mb_form_factor_clean
            ELSE case_size <= mb_size

es_case_compatible_con_motherboard(case_support, mb_form_factor) ==
  IF ~Truthy(case_support) \/ ~Truthy(mb_form_factor) THEN FALSE
  ELSE
    LET case_support_clean == NormalizarFormFactor(Chars(case_support.v))
        mb_form_factor_clean == NormalizarFormFactor(Chars(mb_form_factor.v))
        case_size == form_factor_sizes(case_support_clean)
        mb_size == form_factor_sizes(mb_form_factor_clean)
    IN IF case_support_clean = mb_form_factor_clean THEN TRUE
       ELSE IF case_size = -1 \/ mb_size = -1
            THEN case_support_clean = mb_form_factor_clean
            ELSE case_size >= mb_size

----------------------------------------------------------------------------
(* GestorFiltros._calcular_potencia_requerida *)

\* the default TDP of a CPU without a usable one
CpuTdpDefault == 65
\* "Motherboard, RAM, almacenamiento"
PotenciaBase == 50
\* "Ventiladores y perifericos"
PotenciaVentiladores == 30
\* "Minimo 300W"
PotenciaMinima == 300
\* the GPU estimate of an unknown category
GpuPotenciaDefault == 180

\* gpu_power_map.get(gpu_category, 180)
gpu_power_map(gpu_category) ==
  IF gpu_category = Str("entry_level") THEN 75
  ELSE IF gpu_category = Str("budget") THEN 120
  ELSE IF gpu_category = Str("mid_range") THEN 180
  ELSE IF gpu_category = Str("high_end") THEN 250
  ELSE IF gpu_category = Str("enthusiast") THEN 320
  ELSE IF gpu_category = Str("flagship") THEN 400
  ELSE GpuPotenciaDefault

\* the number added for componentes['cpu']
CpuPotencia(cpu_data) ==
  LET architecture == Get1(cpu_data, "architecture")
      tdp_info == IF IsDict(architecture) THEN Get1(architecture, "tdp") ELSE None
      cpu_tdp1 == IF IsDict(architecture) /\ IsDict(tdp_info)
                    THEN Get(tdp_info, "value", Num(CpuTdpDefault))
                  ELSE IF IsDict(architecture) /\ IsNum(tdp_info) THEN tdp_info
                  ELSE None
      cpu_tdp == IF IsNone(cpu_tdp1) THEN Get(cpu_data, "tdp", Num(CpuTdpDefault))
                 ELSE cpu_tdp1
  IN IF IsNum(cpu_tdp) THEN cpu_tdp.v ELSE CpuTdpDefault

\* a GPU estimate that prefers the record's own TDP (not what the code does)
GpuPotenciaTdpDirecto(gpu_data) ==
  LET performance == Get1(gpu_data, "performance")
      tdp == IF IsDict(performance) THEN Get1(performance, "tdp") ELSE None
      value == IF IsDict(tdp) THEN Get1(tdp, "value") ELSE None
      calculated_metrics == Get1(gpu_data, "calculated_metrics")
      gpu_category == IF IsDict(calculated_metrics)
                        THEN Get(calculated_metrics, "gpu_category", Str("mid_range"))
                        ELSE Str("mid_range")
  IN IF IsNum(value) THEN value.v ELSE gpu_power_map(gpu_category)

\* the number added for componentes['gpu']: the category table only
GpuPotencia(gpu_data) ==
  LET calculated_metrics == Get1(gpu_data, "calculated_metrics")
      gpu_category == IF IsDict(calculated_metrics)
                        THEN Get(calculated_metrics, "gpu_category", Str("mid_range"))
                        ELSE Str("mid_range")
  IN gpu_power_map(gpu_category)

Max(a, b) == IF a >= b THEN a ELSE b

\* an estimate that counts 10 W for a solid-state drive (not what the code does)
calcular_potencia_con_ssd(componentes) ==
  IF componentes = EmptyDict THEN PotenciaMinima
  ELSE LET cpu == IF "cpu" \in DOMAIN componentes
                  THEN CpuPotencia(componentes["cpu"]) ELSE 0
           gpu == IF "gpu" \in DOMAIN componentes
                  THEN GpuPotencia(componentes["gpu"]) ELSE 0
           ssd == IF "ssd" \in DOMAIN componentes THEN 10 ELSE 0
       IN Max(PotenciaBase + cpu + gpu + ssd + PotenciaVentiladores, PotenciaMinima)

\* the same estimate without the 300 W floor
calcular_potencia_sin_minimo(componentes) ==
  IF ~Truthy(componentes) THEN PotenciaMinima
  ELSE (IF "cpu" \in DOMAIN componentes THEN CpuPotencia(componentes["cpu"]) ELSE 0)
       + (IF "gpu" \in DOMAIN componentes THEN GpuPotencia(componentes["gpu"]) ELSE 0)
       + PotenciaBase + PotenciaVentiladores

calcular_potencia_requerida(componentes) ==
  IF ~Truthy(componentes) THEN PotenciaMinima
  ELSE Max((IF "cpu" \in DOMAIN componentes THEN CpuPotencia(componentes["cpu"]) ELSE 0)
           + (IF "gpu" \in DOMAIN componentes THEN GpuPotencia(componentes["gpu"]) ELSE 0)
           + PotenciaBase + PotenciaVentiladores,
           PotenciaMinima)

----------------------------------------------------------------------------
(* The report of a validator *)

Returned == "returned"
Raised(e) == [estado |-> "raised", excepcion |-> e]

\* resultado = {...} of the two validators of ValidadorCompatibilidad
ReporteInicial ==
  [estado |-> Returned, compatible |-> TRUE, advertencias |-> <<>>, errores |-> <<>>]

\* resultados = {...} of verificar_compatibilidad_completa; nothing is ever
\* appended to 'recomendaciones'
ResultadosIniciales ==
  [estado |-> Returned, compatible |-> TRUE, advertencias |-> <<>>, errores |-> <<>>,
   recomendaciones |-> <<>>]

\* an error appended without clearing the flag
AgregarErrorSinMarcar(r, msg) == [r EXCEPT !.errores = Append(@, msg)]

\* resultados['errores'].append(msg); resultados['compatible'] = False
AgregarError(r, msg) ==
  [r EXCEPT !.errores = Append(@, msg), !.compatible = FALSE]

\* resultados['advertencias'].append(msg)
AgregarAdvertencia(r, msg) == [r EXCEPT !.advertencias = Append(@, msg)]

ErrSocket == "Incompatibilidad de socket"
ErrRam == "Incompatibilidad de RAM"
ErrFormFactor == "Incompatibilidad de form factor"
ErrPsu == "PSU insuficiente"
AdvCase == "Case seleccionado no especifica compatibilidad de motherboard"
AdvMotherboard == "Motherboard seleccionada no especifica form factor"
AdvPsuMargen == "PSU con margen ajustado"
AdvPsuPotencia == "PSU seleccionado no especifica potencia"

----------------------------------------------------------------------------
(* GestorFiltros.verificar_compatibilidad_completa *)

\* a socket check that runs for a CPU alone, against the socket of a motherboard
\* that is not there
VerificarSocketSinPar(configuracion_, r) ==
  IF "cpu" \in DOMAIN configuracion_
  THEN LET cpu_socket ==
             Get1(Get(configuracion_["cpu"], "architecture", EmptyDict), "socket")
           mb_socket ==
             Get1(Get(Get(configuracion_, "motherboard", EmptyDict),
                      "platform", EmptyDict), "socket")
       IN IF ~PyEq(cpu_socket, mb_socket) THEN AgregarError(r, ErrSocket) ELSE r
  ELSE r

\* "Verificar CPU y Motherboard"
VerificarSocket(configuracion_, r) ==
  IF "cpu" \in DOMAIN configuracion_ /\ "motherboard" \in DOMAIN configuracion_
  THEN LET cpu_socket ==
             Get1(Get(configuracion_["cpu"], "architecture", EmptyDict), "socket")
           mb_socket ==
             Get1(Get(configuracion_["motherboard"], "platform", EmptyDict), "socket")
       IN IF ~PyEq(cpu_socket, mb_socket) THEN AgregarError(r, ErrSocket) ELSE r
  ELSE r

\* "Verificar RAM y Motherboard"
VerificarRam(configuracion_, r) ==
  IF "ram" \in DOMAIN configuracion_ /\ "motherboard" \in DOMAIN configuracion_
  THEN LET ram_type ==
             Get1(Get(Get(configuracion_["ram"], "memory_specs", EmptyDict),
                      "ram_type", EmptyDict), "generation")
           mb_ram_type ==
             Get1(Get(configuracion_["motherboard"], "memory", EmptyDict), "type")
       IN IF ~PyEq(ram_type, mb_ram_type) THEN AgregarError(r, ErrRam) ELSE r
  ELSE r

\* the case check reporting a missing form factor as an incompatibility
VerificarCaseEstricto(configuracion_, r) ==
  IF "case" \in DOMAIN configuracion_ /\ "motherboard" \in DOMAIN configuracion_
  THEN LET case_mb_support ==
             Get1(Get(configuracion_["case"], "compatibility", EmptyDict), "motherboard")
           mb_form_factor == Get1(configuracion_["motherboard"], "form_factor")
       IN IF ~es_case_compatible_con_motherboard(case_mb_support, mb_form_factor)
          THEN AgregarError(r, ErrFormFactor)
          ELSE r
  ELSE r

\* "Verificar Case y Motherboard"
VerificarCase(configuracion_, r) ==
  IF "case" \in DOMAIN configuracion_ /\ "motherboard" \in DOMAIN configuracion_
  THEN LET case_mb_support ==
             Get1(Get(configuracion_["case"], "compatibility", EmptyDict), "motherboard")
           mb_form_factor == Get1(configuracion_["motherboard"], "form_factor")
       IN IF Truthy(case_mb_support) /\ Truthy(mb_form_factor)
          THEN IF ~es_case_compatible_con_motherboard(case_mb_support, mb_form_factor)
               THEN AgregarError(r, ErrFormFactor)
               ELSE r
          ELSE IF ~Truthy(case_mb_support) THEN AgregarAdvertencia(r, AdvCase)
          ELSE IF ~Truthy(mb_form_factor) THEN AgregarAdvertencia(r, AdvMotherboard)
          ELSE r
  ELSE r

\* the margin test with a 10% margin instead of 20%
BajoMargenDiezPorCiento(w, potencia_requerida) == 10 * w < 11 * potencia_requerida

\* psu_wattage < potencia_requerida * 1.2, in exact arithmetic (the float product
\* decides the same way for every integer pair in the range drawn)
BajoMargen(w, potencia_requerida) == 5 * w < 6 * potencia_requerida

\* psu_wattage as extracted from the PSU record, before the comparison
PsuWattage(psu_data) ==
  LET power_info == Get1(psu_data, "power")
      w1 == IF "power" \in DOMAIN psu_data /\ IsDict(power_info)
            THEN IF "wattage" \in DOMAIN power_info /\ IsDict(power_info["wattage"])
                 THEN Get(power_info["wattage"], "value", Num(0))
                 ELSE IF "wattage" \in DOMAIN power_info
                      THEN Get(power_info, "wattage", Num(0))
                      ELSE Num(0)
            ELSE Num(0)
  IN IF PyEq(w1, Num(0)) THEN Get(psu_data, "wattage", Num(0)) ELSE w1

\* "Verificar potencia PSU"; psu_wattage > 0 raises TypeError unless psu_wattage
\* is a number
VerificarPsu(configuracion_, r) ==
  IF "psu" \in DOMAIN configuracion_
  THEN LET potencia_requerida == calcular_potencia_requerida(configuracion_)
           psu_wattage == PsuWattage(configuracion_["psu"])
       IN IF ~IsNum(psu_wattage) THEN Raised("TypeError")
          ELSE IF psu_wattage.v > 0
               THEN IF psu_wattage.v < potencia_requerida
                    THEN AgregarError(r, ErrPsu)
                    ELSE IF BajoMargen(psu_wattage.v, potencia_requerida)
                         THEN AgregarAdvertencia(r, AdvPsuMargen)
                         ELSE r
               ELSE AgregarAdvertencia(r, AdvPsuPotencia)
  ELSE r

\* a validation that stops at the first failed check
verificar_con_cortocircuito(configuracion_) ==
  LET r1 == VerificarSocket(configuracion_, ResultadosIniciales)
      r2 == IF r1.compatible THEN VerificarRam(configuracion_, r1) ELSE r1
      r3 == IF r2.compatible THEN VerificarCase(configuracion_, r2) ELSE r2
  IN IF r3.compatible THEN VerificarPsu(configuracion_, r3) ELSE r3

verificar_compatibilidad_completa(configuracion_) ==
  VerificarPsu(configuracion_,
    VerificarCase(configuracion_,
      VerificarRam(configuracion_,
        VerificarSocket(configuracion_, ResultadosIniciales))))

----------------------------------------------------------------------------
(* ValidadorCompatibilidad.validar_dimensiones_fisicas *)

ErrGpuLarga == "GPU muy larga"
AdvGpuAjustada == "GPU ajustada"
ErrCoolerAlto == "CPU Cooler muy alto"
ErrSlotsRam == "No hay suficientes slots de RAM"
ErrPuertosSata == "No hay suficientes puertos SATA"

\* a margin of five per cent instead of ten
SobreNoventaYCincoPorCiento(gpu_length, max_gpu_length) ==
  100 * gpu_length > 95 * max_gpu_length

\* gpu_length > max_gpu_length * 0.9, in exact arithmetic
SobreNoventaPorCiento(gpu_length, max_gpu_length) == 10 * gpu_length > 9 * max_gpu_length

\* "Verificar GPU vs Case"; x > 0 raises TypeError unless x is a number, and the
\* right operand of `and` is evaluated only when the left one is true
VerificarGpuCase(configuracion_, r) ==
  LET case == Get1(configuracion_, "case")
      gpu == Get1(configuracion_, "gpu")
  IN IF Truthy(case) /\ Truthy(gpu)
     THEN LET max_gpu_length ==
                Get(Get(Get(case, "compatibility", EmptyDict),
                        "supported_gpu_length", EmptyDict), "value", Num(0))
              gpu_length ==
                Get(Get(Get(gpu, "dimensions", EmptyDict),
                        "length", EmptyDict), "value", Num(0))
          IN IF ~IsNum(max_gpu_length) THEN Raised("TypeError")
             ELSE IF max_gpu_length.v > 0
                  THEN IF ~IsNum(gpu_length) THEN Raised("TypeError")
                       ELSE IF gpu_length.v > 0
                            THEN IF gpu_length.v > max_gpu_length.v
                                 THEN AgregarError(r, ErrGpuLarga)
                                 ELSE IF SobreNoventaPorCiento(gpu_length.v,
                                                               max_gpu_length.v)
                                      THEN AgregarAdvertencia(r, AdvGpuAjustada)
                                      ELSE r
                            ELSE r
                  ELSE r
     ELSE r

\* "Verificar CPU Cooler vs Case"
VerificarCoolerCase(configuracion_, r) ==
  LET case == Get1(configuracion_, "case")
      cpu_cooler == Get1(configuracion_, "cpu_cooler")
  IN IF Truthy(case) /\ Truthy(cpu_cooler)
     THEN LET max_cooler_height ==
                Get(Get(Get(case, "compatibility", EmptyDict),
                        "supported_cpu_cooler_height", EmptyDict), "value", Num(0))
              cooler_height ==
                Get(Get(Get(cpu_cooler, "dimensions", EmptyDict),
                        "height", EmptyDict), "value", Num(0))
          IN IF ~IsNum(max_cooler_height) THEN Raised("TypeError")
             ELSE IF max_cooler_height.v > 0
                  THEN IF ~IsNum(cooler_height) THEN Raised("TypeError")
                       ELSE IF cooler_height.v > 0 /\ cooler_height.v > max_cooler_height.v
                            THEN AgregarError(r, ErrCoolerAlto)
                            ELSE r
                  ELSE r
     ELSE r

\* a step of a validator: an exception raised by an earlier step ends the call
Paso(r, siguiente) == IF r.estado = Returned THEN siguiente ELSE r

validar_dimensiones_fisicas(configuracion_) ==
  LET r1 == VerificarGpuCase(configuracion_, ReporteInicial)
  IN Paso(r1, VerificarCoolerCase(configuracion_, r1))

----------------------------------------------------------------------------
(* ValidadorCompatibilidad.validar_conectividad *)

\* the sticks of every module are numbers (sum() raises TypeError otherwise)
SticksNumericos(ram_modules) ==
  \A i \in 1..Len(ram_modules) :
    IsNum(Get(Get(ram_modules[i], "memory_specs", EmptyDict), "sticks", Num(1)))

\* sum(ram.get('memory_specs', {}).get('sticks', 1) for ram in ram_modules)
RECURSIVE SumaSticks(_)
SumaSticks(ram_modules) ==
  IF ram_modules = <<>> THEN 0
  ELSE Get(Get(Head(ram_modules), "memory_specs", EmptyDict), "sticks", Num(1)).v
       + SumaSticks(Tail(ram_modules))

\* every device counted, whatever its interface
CuentaDispositivos(storage_devices) == Len(storage_devices)

\* len([dev for dev in storage_devices if dev.get('interface') == 'SATA'])
RECURSIVE CuentaSata(_)
CuentaSata(storage_devices) ==
  IF storage_devices = <<>> THEN 0
  ELSE (IF PyEq(Get1(Head(storage_devices), "interface"), Str("SATA")) THEN 1 ELSE 0)
       + CuentaSata(Tail(storage_devices))

\* "Verificar slots de RAM"
VerificarSlotsRam(configuracion_, r) ==
  LET motherboard == Get1(configuracion_, "motherboard")
      ram_modules == Get(configuracion_, "ram_modules", <<>>)
  IN IF Truthy(motherboard) /\ ram_modules # <<>>
     THEN LET ram_slots_disponibles ==
                Get(Get(motherboard, "memory", EmptyDict), "slots", Num(0))
          IN IF ~SticksNumericos(ram_modules) \/ ~IsNum(ram_slots_disponibles)
             THEN Raised("TypeError")
             ELSE IF SumaSticks(ram_modules) > ram_slots_disponibles.v
                  THEN AgregarError(r, ErrSlotsRam)
                  ELSE r
     ELSE r

\* "Verificar puertos SATA para almacenamiento"
VerificarPuertosSata(configuracion_, r) ==
  LET motherboard == Get1(configuracion_, "motherboard")
      storage_devices == Get(configuracion_, "storage_devices", <<>>)
  IN IF Truthy(motherboard) /\ storage_devices # <<>>
     THEN LET sata_ports ==
                Get(Get(motherboard, "connectivity", EmptyDict), "sata_ports", Num(0))
          IN IF ~IsNum(sata_ports) THEN Raised("TypeError")
             ELSE IF CuentaSata(storage_devices) > sata_ports.v
                  THEN AgregarError(r, ErrPuertosSata)
                  ELSE r
     ELSE r

validar_conectividad(configuracion_) ==
  LET r1 == VerificarSlotsRam(configuracion_, ReporteInicial)
  IN Paso(r1, VerificarPuertosSata(configuracion_, r1))

----------------------------------------------------------------------------
(* GestorFiltros.filtrar_psu_por_case_y_componentes *)

\* psu.get('power', {}).get('wattage', {}).get('value', 0)
PsuWattageFiltro(psu) ==
  Get(Get(Get(psu, "power", EmptyDict), "wattage", EmptyDict), "value", Num(0))

\* a selection that asks for the estimate without the margin
SeleccionPsuSinMargen(psus, case_psu_support, potencia_requerida) ==
  LET Pasa(psu) ==
        LET psu_form_factor == Get1(psu, "form_factor")
            compatible_form_factor ==
              IF Truthy(case_psu_support) /\ Truthy(psu_form_factor)
              THEN PyEq(case_psu_support, psu_form_factor)
              ELSE TRUE
        IN compatible_form_factor /\ PsuWattageFiltro(psu).v >= potencia_requerida
  IN SelectSeq(psus, Pasa)

\* a selection that puts the form factors through the predicate of the case
\* filter (not what the code does)
SeleccionPsuNormalizada(psus, case_psu_support, potencia_requerida) ==
  LET Pasa(psu) ==
        LET psu_form_factor == Get1(psu, "form_factor")
            compatible_form_factor ==
              IF Truthy(case_psu_support) /\ Truthy(psu_form_factor)
              THEN es_case_compatible_con_motherboard(case_psu_support, psu_form_factor)
              ELSE TRUE
            potencia_suficiente == ~BajoMargen(PsuWattageFiltro(psu).v, potencia_requerida)
        IN compatible_form_factor /\ potencia_suficiente
  IN SelectSeq(psus, Pasa)

\* a selection that compares the form factors whenever the case declares one,
\* whatever the PSU row declares
SeleccionPsuEstricta(psus, case_psu_support, potencia_requerida) ==
  LET Pasa(psu) ==
        /\ Truthy(case_psu_support) => PyEq(case_psu_support, Get1(psu, "form_factor"))
        /\ ~BajoMargen(PsuWattageFiltro(psu).v, potencia_requerida)
  IN SelectSeq(psus, Pasa)

SeleccionPsu(psus, case_psu_support, potencia_requerida) ==
  LET Pasa(psu) ==
        LET psu_form_factor == Get1(psu, "form_factor")
            compatible_form_factor ==
              IF Truthy(case_psu_support) /\ Truthy(psu_form_factor)
              THEN PyEq(case_psu_support, psu_form_factor)
              ELSE TRUE
            potencia_suficiente == ~BajoMargen(PsuWattageFiltro(psu).v, potencia_requerida)
        IN compatible_form_factor /\ potencia_suficiente
  IN SelectSeq(psus, Pasa)

\* the call raises TypeError at the first PSU whose wattage value is not a number
filtrar_psu_por_case_y_componentes(datos_, case_data, componentes_seleccionados) ==
  LET case_psu_support ==
        IF Truthy(case_data)
        THEN Get1(Get(case_data, "compatibility", EmptyDict), "power_supply")
        ELSE None
      potencia_requerida == calcular_potencia_requerida(componentes_seleccionados)
      psus == Get(datos_, "psu", <<>>)
  IN IF \E i \in 1..Len(psus) : ~IsNum(PsuWattageFiltro(psus[i]))
     THEN Raised("TypeError")
     ELSE [estado |-> Returned,
           lista |-> SeleccionPsu(psus, case_psu_support, potencia_requerida)]

----------------------------------------------------------------------------
(* GestorFiltros: the motherboard and RAM filters *)

\* the CPUs whose producer == arquitectura, in catalog order
filtrar_cpus_por_arquitectura(datos_, arquitectura) ==
  LET Pasa(cpu) == PyEq(Get1(cpu, "producer"), arquitectura)
  IN SelectSeq(Get(datos_, "cpu", <<>>), Pasa)

\* a case filter that returns the compatible cases last to first
filtrar_cases_en_orden_inverso(datos_, form_factor) ==
  LET Pasa(case) ==
        es_case_compatible_con_motherboard(
          Get(Get(case, "compatibility", EmptyDict), "motherboard", Str("")), form_factor)
      seleccion == SelectSeq(Get(datos_, "case", <<>>), Pasa)
  IN [i \in 1..Len(seleccion) |-> seleccion[Len(seleccion) + 1 - i]]

\* the cases whose declared motherboard support ('' when the case declares
\* none) accepts the form factor, in catalog order
filtrar_cases_por_motherboard_form_factor(datos_, form_factor) ==
  LET Pasa(case) ==
        es_case_compatible_con_motherboard(
          Get(Get(case, "compatibility", EmptyDict), "motherboard", Str("")), form_factor)
  IN SelectSeq(Get(datos_, "case", <<>>), Pasa)

\* a filter that compares sockets without regard to case (not what the code does)
filtrar_motherboards_sin_mayusculas(datos_, socket) ==
  LET Pasa(mb) ==
        LET s == Get1(Get(mb, "platform", EmptyDict), "socket")
        IN IF IsStr(s) /\ IsStr(socket)
           THEN \/ s = socket
                \/ {s.v, socket.v} \in {{"AM4", "am4"}, {"AM5", "am5"}, {"LGA1700", "lga1700"}}
           ELSE PyEq(s, socket)
  IN SelectSeq(Get(datos_, "motherboard", <<>>), Pasa)

\* the motherboards whose platform.socket == socket, in catalog order
filtrar_motherboards_por_socket(datos_, socket) ==
  LET Pasa(mb) == PyEq(Get1(Get(mb, "platform", EmptyDict), "socket"), socket)
  IN SelectSeq(Get(datos_, "motherboard", <<>>), Pasa)

\* the motherboards left after the two optional restrictions: a falsy socket or
\* form factor (None, '') restricts nothing
MotherboardsCompatibles(datos_, socket, form_factor) ==
  LET PorSocket(mb) == PyEq(Get1(Get(mb, "platform", EmptyDict), "socket"), socket)
      PorFormFactor(mb) == PyEq(Get1(mb, "form_factor"), form_factor)
      todas == Get(datos_, "motherboard", <<>>)
      por_socket == IF Truthy(socket) THEN SelectSeq(todas, PorSocket) ELSE todas
  IN IF Truthy(form_factor) THEN SelectSeq(por_socket, PorFormFactor) ELSE por_socket

\* tipos_ram_soportados: the truthy memory.type values of those motherboards
TiposRamSoportados(datos_, socket, form_factor) ==
  LET mbs == MotherboardsCompatibles(datos_, socket, form_factor)
  IN {Get1(Get(mbs[i], "memory", EmptyDict), "type") :
        i \in {j \in 1..Len(mbs) : Truthy(Get1(Get(mbs[j], "memory", EmptyDict), "type"))}}

\* a selection that falls back to the whole RAM catalog when no type is supported
RamCompatibleOTodas(datos_, tipos_ram_soportados) ==
  LET Pasa(ram) ==
        Get1(Get(Get(ram, "memory_specs", EmptyDict), "ram_type", EmptyDict),
             "generation") \in tipos_ram_soportados
  IN IF tipos_ram_soportados = {} THEN Get(datos_, "ram", <<>>)
     ELSE SelectSeq(Get(datos_, "ram", <<>>), Pasa)

\* a selection that keeps every RAM entry with a declared generation
RamConGeneracion(datos_, tipos_ram_soportados) ==
  LET Pasa(ram) ==
        Truthy(Get1(Get(Get(ram, "memory_specs", EmptyDict), "ram_type", EmptyDict),
                    "generation"))
  IN SelectSeq(Get(datos_, "ram", <<>>), Pasa)

\* a selection that loses the first of the matching entries
RamCompatibleSinPrimera(datos_, tipos_ram_soportados) ==
  LET Pasa(ram) ==
        Get1(Get(Get(ram, "memory_specs", EmptyDict), "ram_type", EmptyDict),
             "generation") \in tipos_ram_soportados
      seleccion == SelectSeq(Get(datos_, "ram", <<>>), Pasa)
  IN IF seleccion = <<>> THEN <<>> ELSE Tail(seleccion)

\* ram_compatible: the RAM entries whose generation is one of the supported
\* types, in catalog order
RamCompatible(datos_, tipos_ram_soportados) ==
  LET Pasa(ram) ==
        Get1(Get(Get(ram, "memory_specs", EmptyDict), "ram_type", EmptyDict),
             "generation") \in tipos_ram_soportados
  IN SelectSeq(Get(datos_, "ram", <<>>), Pasa)

\* list(s) of a set of memory types: its elements in the hash order of the process
ListaDeSet(s) ==
  LET Esta(x) == x \in s IN SelectSeq(semilla, Esta)

\* the tuple (ram_compatible, list(tipos_ram_soportados))
filtrar_ram_por_motherboard(datos_, socket, form_factor) ==
  LET tipos_ram_soportados == TiposRamSoportados(datos_, socket, form_factor)
  IN [estado |-> Returned,
      lista |-> RamCompatible(datos_, tipos_ram_soportados),
      tipos |-> ListaDeSet(tipos_ram_soportados)]

----------------------------------------------------------------------------
(* Component records: the shapes the normalizers write and the shapes the   *)
(* validators read                                                          *)

\* Dimension.to_dict / ThermalDesignPower.to_dict / PowerWattage.to_dict:
\* 'value' is None when the text could not be parsed
Dimension(value) == [value |-> value]

CpuN(socket, tdp) == [architecture |-> [socket |-> socket, tdp |-> Dimension(tdp)]]

\* the same record with the 'producer' the CPU filter reads
CpuDe(producer, socket, tdp) ==
  [producer |-> producer, architecture |-> [socket |-> socket, tdp |-> Dimension(tdp)]]

MbN(socket, form_factor, type, slots, sata_ports) ==
  [platform |-> [socket |-> socket],
   form_factor |-> form_factor,
   memory |-> [type |-> type, slots |-> slots],
   connectivity |-> [sata_ports |-> sata_ports]]

RamN(generation, sticks) ==
  [memory_specs |-> [ram_type |-> [generation |-> generation], sticks |-> sticks]]

\* GPUDataNormalizer writes the length under 'physical'
GpuN(gpu_category, tdp, length) ==
  [physical |-> [length |-> Dimension(length)],
   performance |-> [tdp |-> Dimension(tdp)],
   calculated_metrics |-> [gpu_category |-> gpu_category]]

\* a GPU record with the length under 'dimensions', the key
\* validar_dimensiones_fisicas reads
GpuDimensiones(length) == [dimensions |-> [length |-> Dimension(length)]]

CaseN(motherboard, power_supply, gpu_length, cooler_height) ==
  [compatibility |-> [motherboard |-> motherboard,
                      power_supply |-> power_supply,
                      supported_gpu_length |-> Dimension(gpu_length),
                      supported_cpu_cooler_height |-> Dimension(cooler_height)]]

PsuN(wattage, form_factor) ==
  [power |-> [wattage |-> Dimension(wattage)], form_factor |-> form_factor]

\* CPUCoolerDataNormalizer writes the height under 'specifications'
CoolerN(height) == [specifications |-> [height |-> Dimension(height)]]

\* a cooler record with the height under 'dimensions', the key
\* validar_dimensiones_fisicas reads
CoolerDimensiones(height) == [dimensions |-> [height |-> Dimension(height)]]

\* a storage record with the 'interface' key validar_conectividad reads
StorageN(interface) == [interface |-> interface]

\* the keys of self.datos
Componentes == {"cpu", "motherboard", "ram", "gpu", "case", "psu", "cpu_cooler", "hdd", "ssd"}

\* the keys of a build that hold one component
Categorias == {"cpu", "motherboard", "ram", "gpu", "case", "psu", "cpu_cooler"}

\* self.datos[componente] = [] for every file that is not found
DatosVacios == [c \in Componentes |-> <<>>]

\* records a caller of the validators builds by hand, with the keys the
\* validators read
MuestrasValidador ==
  [DatosVacios EXCEPT
     !["gpu"] = <<GpuDimensiones(Num(300)), GpuDimensiones(None)>>,
     !["cpu_cooler"] = <<CoolerDimensiones(Num(170)), CoolerDimensiones(None)>>,
     !["ssd"] = <<StorageN(Str("SATA"))>>]

\* how many modules (and devices) a build lists at most
MaxModulos == 2

\* the wattages drawn are 0, 20, ..., 20 * MaxVatios
MaxVatios == 32

----------------------------------------------------------------------------
(* State and operations *)

Ninguna == [op |-> "ninguna"]
SinResultado == [estado |-> "none"]

\* the memory types whose order in a set the hash order decides
TiposDeMemoria == {Str("DDR3"), Str("DDR4"), Str("DDR5")}

\* the hash orders a process can start with: every order of those strings
Semillas ==
  {p \in [1..Cardinality(TiposDeMemoria) -> TiposDeMemoria] :
     \A x \in TiposDeMemoria : \E i \in DOMAIN p : p[i] = x}

SemillaInicial == <<Str("DDR3"), Str("DDR4"), Str("DDR5")>>
SemillaInversa == <<Str("DDR5"), Str("DDR4"), Str("DDR3")>>

SinHistoria == [estado |-> "sin historia"]
HistoriaVacia == [estado |-> "vacia"]

\* while no call is kept, the call just made may be kept as the earlier call;
\* the one kept stays and notes whether a different call has followed it
Recordar ==
  anterior' \in
    IF anterior = SinHistoria THEN {anterior}
    ELSE IF anterior = HistoriaVacia
    THEN {anterior,
          [estado |-> "llamada", llamada |-> llamada',
           configuracion |-> configuracion, resultado |-> resultado',
           otras |-> FALSE]}
    ELSE {[anterior EXCEPT !.otras = @ \/ llamada' # anterior.llamada]}

\* d[k] = v
Put(d, k, v) == [x \in DOMAIN d \cup {k} |-> IF x = k THEN v ELSE d[x]]

\* ConfiguracionPanel.actualizar_componente: the caller replaces the component of
\* one category by a record of `componentes`
SeleccionarDe(componentes) ==
  \E tipo \in Categorias :
    \E i \in 1..Len(componentes[tipo]) :
      /\ configuracion' = Put(configuracion, tipo, componentes[tipo][i])
      /\ llamada' = Ninguna
      /\ resultado' = SinResultado
      /\ UNCHANGED <<datos, semilla, anterior>>

\* the component comes from the loaded catalog
Seleccionar == SeleccionarDe(datos)

\* the caller lists one more RAM module under 'ram_modules'
AgregarRamModuleDe(modulos) ==
  \E i \in 1..Len(modulos) :
    /\ Len(Get(configuracion, "ram_modules", <<>>)) < MaxModulos
    /\ configuracion' = Put(configuracion, "ram_modules",
                            Append(Get(configuracion, "ram_modules", <<>>), modulos[i]))
    /\ llamada' = Ninguna
    /\ resultado' = SinResultado
    /\ UNCHANGED <<datos, semilla, anterior>>

\* the module is a RAM record of the catalog
AgregarRamModule == AgregarRamModuleDe(datos["ram"])

\* the caller lists one more storage device under 'storage_devices'
AgregarStorageDeviceDe(dispositivos) ==
  \E i \in 1..Len(dispositivos) :
    /\ Len(Get(configuracion, "storage_devices", <<>>)) < MaxModulos
    /\ configuracion' = Put(configuracion, "storage_devices",
                            Append(Get(configuracion, "storage_devices", <<>>),
                                   dispositivos[i]))
    /\ llamada' = Ninguna
    /\ resultado' = SinResultado
    /\ UNCHANGED <<datos, semilla, anterior>>

AgregarStorageDevice == AgregarStorageDeviceDe(MuestrasValidador["ssd"])

VerificarCompatibilidadCompleta ==
  /\ llamada' = [op |-> "verificar_compatibilidad_completa"]
  /\ resultado' = verificar_compatibilidad_completa(configuracion)
  /\ Recordar
  /\ UNCHANGED <<datos, configuracion, semilla>>

CalcularPotenciaRequerida ==
  /\ llamada' = [op |-> "_calcular_potencia_requerida"]
  /\ resultado' = [estado |-> Returned,
                   valor |-> calcular_potencia_requerida(configuracion)]
  /\ Recordar
  /\ UNCHANGED <<datos, configuracion, semilla>>

ValidarDimensionesFisicas ==
  /\ llamada' = [op |-> "validar_dimensiones_fisicas"]
  /\ resultado' = validar_dimensiones_fisicas(configuracion)
  /\ Recordar
  /\ UNCHANGED <<datos, configuracion, semilla>>

ValidarConectividad ==
  /\ llamada' = [op |-> "validar_conectividad"]
  /\ resultado' = validar_conectividad(configuracion)
  /\ Recordar
  /\ UNCHANGED <<datos, configuracion, semilla>>

\* filtrar_psu_por_case_y_componentes(case of the build, the build)
FiltrarPsuPorCaseYComponentes ==
  /\ llamada' = [op |-> "filtrar_psu_por_case_y_componentes"]
  /\ resultado' = filtrar_psu_por_case_y_componentes(
                    datos, Get1(configuracion, "case"), configuracion)
  /\ Recordar
  /\ UNCHANGED <<datos, configuracion, semilla>>

\* Inputs of the form-factor predicate
NombresFormFactor ==
  {"ATX", "atx", "Micro-ATX", "micro-atx", "micro_atx", "mATX", "µATX", "uATX",
   "Mini-ITX", "ITX", "mITX", "E-ATX", "E_ATX", "XL-ATX", "SFX", "Flex",
   "ATX ", " atx", " "}

ArgumentosFormFactor == {Str(s) : s \in NombresFormFactor} \cup {None, Str("")}

EsCaseCompatibleConMotherboard ==
  \E case_support \in ArgumentosFormFactor, mb_form_factor \in ArgumentosFormFactor :
    /\ llamada' = [op |-> "_es_case_compatible_con_motherboard",
                   case_support |-> case_support, mb_form_factor |-> mb_form_factor]
    /\ resultado' = [estado |-> Returned,
                     valor |-> es_case_compatible_con_motherboard(case_support,
                                                                  mb_form_factor)]
    /\ Recordar
    /\ UNCHANGED <<datos, configuracion, semilla>>

----------------------------------------------------------------------------
(* Spec: every validator over a small catalog *)

CatalogoBase ==
  [DatosVacios EXCEPT
     !["cpu"] = <<CpuN(Str("AM4"), Num(65))>>,
     !["motherboard"] = <<MbN(Str("AM4"), Str("ATX"), Str("DDR4"), Num(1), Num(1)),
                          MbN(Str("LGA1700"), Str("Micro-ATX"), Str("DDR5"), None, Num(0))>>,
     !["ram"] = <<RamN(Str("DDR4"), Num(1))>>,
     !["gpu"] = <<GpuN(Str("high_end"), Num(250), Num(300))>>,
     !["case"] = <<CaseN(Str("Micro-ATX"), Str("ATX"), Num(280), Num(160)),
                   CaseN(Str("ATX"), Str("ATX"), None, None)>>,
     !["psu"] = <<PsuN(Num(300), Str("ATX")), PsuN(Num(400), Str("SFX"))>>,
     !["cpu_cooler"] = <<CoolerN(Num(170))>>]

\* the build takes any of the records of MuestrasValidador
SeleccionarValidador == SeleccionarDe(MuestrasValidador)

\* the same catalog with a PSU row whose wattage text could not be parsed
CatalogoConNulos ==
  [CatalogoBase EXCEPT !["psu"] = Append(@, PsuN(None, Str("ATX")))]

Init ==
  /\ datos \in {CatalogoBase, CatalogoConNulos}
  /\ configuracion = EmptyDict
  /\ llamada = Ninguna
  /\ resultado = SinResultado
  /\ semilla = SemillaInicial
  /\ anterior = SinHistoria

Next ==
  \/ Seleccionar
  \/ SeleccionarValidador
  \/ AgregarRamModule
  \/ AgregarStorageDevice
  \/ VerificarCompatibilidadCompleta
  \/ CalcularPotenciaRequerida
  \/ ValidarDimensionesFisicas
  \/ ValidarConectividad
  \/ FiltrarPsuPorCaseYComponentes

Spec == Init /\ [][Next]_vars

----------------------------------------------------------------------------
(* SpecFormFactor: the form-factor predicate on every pair of names *)

InitFormFactor ==
  /\ datos = DatosVacios
  /\ configuracion = EmptyDict
  /\ llamada = Ninguna
  /\ resultado = SinResultado
  /\ semilla = SemillaInicial
  /\ anterior = SinHistoria

NextFormFactor == EsCaseCompatibleConMotherboard

SpecFormFactor == InitFormFactor /\ [][NextFormFactor]_vars

----------------------------------------------------------------------------
(* SpecVerificar: verificar_compatibilidad_completa over records with missing, *)
(* empty and null fields                                                       *)

MuestrasVerificar ==
  [DatosVacios EXCEPT
     !["cpu"] = <<CpuN(Str("AM4"), Num(65)),
                  CpuN(Str("LGA1700"), Num(120)),
                  CpuN(Str(""), None),
                  EmptyDict>>,
     !["motherboard"] = <<MbN(Str("AM4"), Str("ATX"), Str("DDR4"), Num(4), Num(4)),
                          MbN(Str("LGA1700"), Str("Micro-ATX"), Str("DDR5"), Num(2), Num(2)),
                          MbN(Str(""), Str(""), Str(""), None, Num(0)),
                          EmptyDict>>,
     !["ram"] = <<RamN(Str("DDR4"), Num(2)),
                  RamN(Str("DDR5"), Num(1)),
                  RamN(Str(""), None),
                  EmptyDict>>,
     !["gpu"] = <<GpuN(Str("high_end"), Num(250), Num(300))>>,
     !["case"] = <<CaseN(Str("ATX"), Str("ATX"), Num(320), Num(160)),
                   CaseN(Str("Micro-ATX"), Str("ATX"), Num(280), Num(150)),
                   CaseN(Str("mATX"), Str("SFX"), None, None),
                   CaseN(Str(""), Str(""), None, None),
                   EmptyDict>>,
     !["psu"] = <<PsuN(Num(300), Str("ATX")),
                  PsuN(Num(340), Str("ATX")),
                  PsuN(Num(600), Str("ATX")),
                  PsuN(Num(0), Str("ATX")),
                  PsuN(None, Str("ATX")),
                  EmptyDict,
                  [wattage |-> Num(500)],
                  [power |-> [wattage |-> Num(350)]],
                  [power |-> [wattage |-> Dimension(Num(0))], wattage |-> Num(450)],
                  [power |-> [wattage |-> EmptyDict]]>>]

InitVerificar ==
  /\ datos = DatosVacios
  /\ configuracion = EmptyDict
  /\ llamada = Ninguna
  /\ resultado = SinResultado
  /\ semilla = SemillaInicial
  /\ anterior = SinHistoria

\* the build takes any of the records of MuestrasVerificar
SeleccionarVerificar == SeleccionarDe(MuestrasVerificar)

NextVerificar ==
  \/ SeleccionarVerificar
  \/ VerificarCompatibilidadCompleta
  \/ CalcularPotenciaRequerida

SpecVerificar == InitVerificar /\ [][NextVerificar]_vars

----------------------------------------------------------------------------
(* SpecPotencia: the power estimate and the PSU margin over TDP shapes, GPU   *)
(* categories and a grid of wattages                                          *)

MuestrasPotencia ==
  [DatosVacios EXCEPT
     !["cpu"] = <<CpuN(Str("AM4"), Num(0)),
                  CpuN(Str("AM4"), Num(35)),
                  CpuN(Str("AM4"), Num(65)),
                  CpuN(Str("AM4"), Num(120)),
                  CpuN(Str("AM4"), Num(250)),
                  CpuN(Str("AM4"), None),
                  [architecture |-> [tdp |-> EmptyDict]],
                  [architecture |-> [tdp |-> Num(105)]],
                  [architecture |-> [tdp |-> Str("95 W")]],
                  [tdp |-> Num(95)],
                  [tdp |-> Str("95 W")],
                  [architecture |-> [tdp |-> Dimension(None)], tdp |-> Num(95)],
                  [architecture |-> [tdp |-> Dimension(Num(65))], tdp |-> Num(125)],
                  EmptyDict>>,
     !["gpu"] = <<GpuN(Str("entry_level"), None, None),
                  GpuN(Str("budget"), None, None),
                  GpuN(Str("mid_range"), None, None),
                  GpuN(Str("high_end"), None, None),
                  GpuN(Str("enthusiast"), None, None),
                  GpuN(Str("flagship"), None, None),
                  GpuN(Str("ultra"), None, None),
                  GpuN(None, None, None),
                  GpuN(Str("entry_level"), Num(200), None),
                  GpuN(Str("flagship"), Num(150), None),
                  GpuN(None, Num(350), None),
                  [calculated_metrics |-> EmptyDict],
                  [tdp |-> Num(300)],
                  EmptyDict>>,
     !["psu"] = [i \in 1..(MaxVatios + 1) |-> PsuN(Num(20 * (i - 1)), Str("ATX"))]]

InitPotencia ==
  /\ datos = DatosVacios
  /\ configuracion = EmptyDict
  /\ llamada = Ninguna
  /\ resultado = SinResultado
  /\ semilla = SemillaInicial
  /\ anterior = SinHistoria

\* the build takes any of the records of MuestrasPotencia
SeleccionarPotencia == SeleccionarDe(MuestrasPotencia)

NextPotencia ==
  \/ SeleccionarPotencia
  \/ VerificarCompatibilidadCompleta
  \/ CalcularPotenciaRequerida

SpecPotencia == InitPotencia /\ [][NextPotencia]_vars

----------------------------------------------------------------------------
(* Claims about the form-factor predicate (SpecFormFactor) *)

\* the size table of the claim
TablaTamanos ==
  (sEATX :> 4) @@ (sXLATX :> 3) @@ (sATXl :> 2) @@ (sMicroATXl :> 1) @@ (sMiniITXl :> 0)

\* the aliases of the claim
AliasDeclarado(n) ==
  IF n = <<"m","a","t","x">> \/ n = <<"µ","a","t","x">> \/ n = <<"u","a","t","x">>
  THEN sMicroATXl
  ELSE IF n = <<"m","i","t","x">> \/ n = <<"i","t","x">> THEN sMiniITXl
  ELSE n

\* equal names are compatible; recognised names compare by ordinal; else not
CompatibleSegunNombres(nc, nm) ==
  IF nc = nm THEN TRUE
  ELSE IF nc \in DOMAIN TablaTamanos /\ nm \in DOMAIN TablaTamanos
       THEN TablaTamanos[nc] >= TablaTamanos[nm]
       ELSE FALSE

LlamadaFormFactor ==
  /\ llamada.op = "_es_case_compatible_con_motherboard"
  /\ IsStr(llamada.case_support) /\ llamada.case_support.v # ""
  /\ IsStr(llamada.mb_form_factor) /\ llamada.mb_form_factor.v # ""

\* C6 as stated: for non-empty strings c and m the predicate equals the rule
\* applied to the names lower-cased, with '_' replaced by '-' and aliases mapped
\* (no stripping of whitespace).
C6_SinStrip ==
  LlamadaFormFactor =>
    resultado.valor =
      CompatibleSegunNombres(
        AliasDeclarado(Replace(Lower(Chars(llamada.case_support.v)), "_", "-")),
        AliasDeclarado(Replace(Lower(Chars(llamada.mb_form_factor.v)), "_", "-")))

\* C6 amended: for non-empty strings c and m the predicate equals the rule
\* applied to the names with surrounding whitespace stripped, lower-cased, with
\* '_' replaced by '-' and aliases mapped; an "ATX" case accepts a "Micro-ATX"
\* board and a "Micro-ATX" case rejects an "ATX" board.
C6_FormFactor ==
  LlamadaFormFactor =>
    resultado.valor =
      CompatibleSegunNombres(
        AliasDeclarado(Replace(Lower(Strip(Chars(llamada.case_support.v))), "_", "-")),
        AliasDeclarado(Replace(Lower(Strip(Chars(llamada.mb_form_factor.v))), "_", "-")))

\* a "Micro-ATX" case asked about an "ATX " board (trailing blank): rejected by
\* the ordinal rule after stripping
C6_Witness ==
  /\ LlamadaFormFactor
  /\ llamada.case_support = Str("Micro-ATX")
  /\ llamada.mb_form_factor = Str("ATX ")
  /\ resultado.valor = FALSE

----------------------------------------------------------------------------
(* Claims about the reports (Spec, SpecVerificar) *)

Validadores ==
  {"verificar_compatibilidad_completa", "validar_dimensiones_fisicas",
   "validar_conectividad"}

InformeDevuelto == llamada.op \in Validadores /\ resultado.estado = Returned

VerificarDevuelto ==
  llamada.op = "verificar_compatibilidad_completa" /\ resultado.estado = Returned

Contiene(lista, msg) == \E i \in 1..Len(lista) : lista[i] = msg

Cuenta(lista, msg) == Cardinality({i \in 1..Len(lista) : lista[i] = msg})

\* C1: in every report a validator returns, compatible is false exactly when
\* errores is non-empty, whatever advertencias holds.
C1_CompatibleSiiSinErrores ==
  InformeDevuelto => (resultado.compatible = FALSE <=> resultado.errores # <<>>)

\* a report that holds a warning and an error
C1_Witness ==
  /\ InformeDevuelto
  /\ resultado.advertencias # <<>>
  /\ resultado.errores # <<>>
  /\ resultado.compatible = FALSE

\* the fields the four checks compare, read off the build
SocketCpu(cfg) == Get1(Get(cfg["cpu"], "architecture", EmptyDict), "socket")
SocketMb(cfg) == Get1(Get(cfg["motherboard"], "platform", EmptyDict), "socket")
GeneracionRam(cfg) ==
  Get1(Get(Get(cfg["ram"], "memory_specs", EmptyDict), "ram_type", EmptyDict),
       "generation")
TipoMemoriaMb(cfg) == Get1(Get(cfg["motherboard"], "memory", EmptyDict), "type")
SoporteCase(cfg) == Get1(Get(cfg["case"], "compatibility", EmptyDict), "motherboard")
FormFactorMb(cfg) == Get1(cfg["motherboard"], "form_factor")

Par(cfg, a, b) == a \in DOMAIN cfg /\ b \in DOMAIN cfg

\* a field is missing when it is absent or empty
Falta(x) == IsNone(x) \/ x = Str("")

NombreNormalizado(x) == AliasDeclarado(Replace(Lower(Strip(Chars(x.v))), "_", "-"))

FormFactorViolado(cfg) ==
  /\ Par(cfg, "case", "motherboard")
  /\ ~Falta(SoporteCase(cfg)) /\ ~Falta(FormFactorMb(cfg))
  /\ ~CompatibleSegunNombres(NombreNormalizado(SoporteCase(cfg)),
                             NombreNormalizado(FormFactorMb(cfg)))

\* the wattage of the PSU record when it is a positive number, else 0
VatiosPsu(cfg) ==
  LET w == PsuWattage(cfg["psu"]) IN IF IsNum(w) /\ w.v > 0 THEN w.v ELSE 0

\* the build cut down to the components that one check reads
Solo(cfg, claves) == [k \in DOMAIN cfg \cap claves |-> cfg[k]]

\* the errors of the check that reads `claves`, evaluated with nothing else selected
ErroresDe(cfg, claves) ==
  LET r == verificar_compatibilidad_completa(Solo(cfg, claves))
  IN IF r.estado = Returned THEN r.errores ELSE <<>>

\* C2: no check is skipped because another one failed: errores is, in the order
\* socket, RAM, form factor, PSU, the error of every check that fails when it is
\* evaluated on its own components alone, one entry per check.
C2_SinCortocircuito ==
  VerificarDevuelto =>
    /\ resultado.errores =
         ErroresDe(configuracion, {"cpu", "motherboard"})
         \o ErroresDe(configuracion, {"ram", "motherboard"})
         \o ErroresDe(configuracion, {"case", "motherboard"})
         \o ErroresDe(configuracion, {"psu", "cpu", "gpu"})
    /\ \A msg \in {ErrSocket, ErrRam, ErrFormFactor, ErrPsu} :
         Cuenta(resultado.errores, msg) <= 1

\* all four checks fail in one report
C2_Witness ==
  /\ VerificarDevuelto
  /\ resultado.errores = <<ErrSocket, ErrRam, ErrFormFactor, ErrPsu>>

\* C7 as stated: a pair whose compared field is missing on one or both sides
\* gets no error.
C7_FaltaNoEsError ==
  VerificarDevuelto =>
    /\ (Par(configuracion, "cpu", "motherboard")
          /\ (Falta(SocketCpu(configuracion)) \/ Falta(SocketMb(configuracion)))
        => ~Contiene(resultado.errores, ErrSocket))
    /\ (Par(configuracion, "ram", "motherboard")
          /\ (Falta(GeneracionRam(configuracion)) \/ Falta(TipoMemoriaMb(configuracion)))
        => ~Contiene(resultado.errores, ErrRam))
    /\ (Par(configuracion, "case", "motherboard")
          /\ (Falta(SoporteCase(configuracion)) \/ Falta(FormFactorMb(configuracion)))
        => ~Contiene(resultado.errores, ErrFormFactor))

\* C8: with a case and a motherboard selected, the predicate decides the
\* form-factor error only when both names are non-empty; otherwise there is
\* exactly one 'not specified' warning and no form-factor error.
C8_FormFactorSoloSiAmbos ==
  VerificarDevuelto /\ Par(configuracion, "case", "motherboard") =>
    IF ~Falta(SoporteCase(configuracion)) /\ ~Falta(FormFactorMb(configuracion))
    THEN /\ Contiene(resultado.errores, ErrFormFactor)
              <=> FormFactorViolado(configuracion)
         /\ Cuenta(resultado.advertencias, AdvCase) = 0
         /\ Cuenta(resultado.advertencias, AdvMotherboard) = 0
    ELSE /\ ~Contiene(resultado.errores, ErrFormFactor)
         /\ Cuenta(resultado.advertencias, AdvCase)
              + Cuenta(resultado.advertencias, AdvMotherboard) = 1

\* a case and a motherboard that both lack the form factor: one warning, no error
C8_Witness ==
  /\ VerificarDevuelto
  /\ Par(configuracion, "case", "motherboard")
  /\ Falta(SoporteCase(configuracion)) /\ Falta(FormFactorMb(configuracion))
  /\ resultado.advertencias = <<AdvCase>>
  /\ resultado.errores = <<>>

\* the PSU record carries no positive wattage: the value is absent, zero or null
\* and there is no top-level 'wattage'
PsuSinVatios(psu) ==
  /\ "wattage" \notin DOMAIN psu
  /\ LET value == Get(Get(Get(psu, "power", EmptyDict), "wattage", EmptyDict),
                      "value", Num(0))
     IN IsNone(value) \/ value = Num(0)

\* C9 as stated: a PSU without a positive wattage makes the call return with
\* exactly one 'no especifica potencia' warning and no PSU error.
C9_PsuSinVatiosAdvierte ==
  llamada.op = "verificar_compatibilidad_completa"
    /\ "psu" \in DOMAIN configuracion /\ PsuSinVatios(configuracion["psu"])
  => /\ resultado.estado = Returned
     /\ Cuenta(resultado.advertencias, AdvPsuPotencia) = 1
     /\ ~Contiene(resultado.errores, ErrPsu)

----------------------------------------------------------------------------
(* Claims about the power estimate and the PSU margin (SpecPotencia) *)

PotenciaDevuelta ==
  llamada.op = "_calcular_potencia_requerida" /\ resultado.estado = Returned

\* the TDP the CPU record carries: the first number among architecture.tdp.value,
\* a bare architecture.tdp and a top-level tdp; None when there is none
TdpCpu(cpu) ==
  LET tdp == Get1(Get(cpu, "architecture", EmptyDict), "tdp")
      value == IF IsDict(tdp) THEN Get1(tdp, "value") ELSE tdp
  IN IF IsNum(value) THEN value
     ELSE IF IsNum(Get1(cpu, "tdp")) THEN cpu["tdp"]
     ELSE None

\* the CPU term of the estimate as the documentation gives it
TerminoCpu(cfg) ==
  IF "cpu" \notin DOMAIN cfg THEN 0
  ELSE IF IsNum(TdpCpu(cfg["cpu"])) THEN TdpCpu(cfg["cpu"]).v
  ELSE 65

\* the TDP the GPU record carries under performance.tdp.value or as a top-level
\* tdp; None when there is none
TdpGpu(gpu) ==
  LET value == Get1(Get(Get(gpu, "performance", EmptyDict), "tdp", EmptyDict), "value")
  IN IF IsNum(value) THEN value
     ELSE IF IsNum(Get1(gpu, "tdp")) THEN gpu["tdp"]
     ELSE None

\* the documented category table
TablaCategorias ==
  [entry_level |-> 75, budget |-> 120, mid_range |-> 180, high_end |-> 250,
   enthusiast |-> 320, flagship |-> 400]

\* the table entry of the GPU record; 180 for an unknown or missing category
SegunCategoria(gpu) ==
  LET categoria == Get1(Get(gpu, "calculated_metrics", EmptyDict), "gpu_category")
  IN IF IsStr(categoria) /\ categoria.v \in DOMAIN TablaCategorias
     THEN TablaCategorias[categoria.v]
     ELSE 180

\* the GPU terms C4 leaves open: the table entry or the record's own TDP
TerminosGpu(cfg) ==
  IF "gpu" \notin DOMAIN cfg THEN {0}
  ELSE {SegunCategoria(cfg["gpu"])}
       \cup (IF IsNum(TdpGpu(cfg["gpu"])) THEN {TdpGpu(cfg["gpu"]).v} ELSE {})

\* C4: for every build the estimate returns max(300, cpu + gpu + 50 + 30), with
\* cpu the CPU's own TDP, 65 for a CPU without one and 0 without a CPU, and gpu
\* 0 without a GPU; it is never below 300 and the call never fails.
C4_PotenciaRequerida ==
  llamada.op = "_calcular_potencia_requerida" =>
    /\ resultado.estado = Returned
    /\ resultado.valor >= 300
    /\ \E gpu \in TerminosGpu(configuracion) :
         resultado.valor = Max(300, TerminoCpu(configuracion) + gpu + 50 + 30)

\* a CPU of 120 W and no GPU: 200 W, raised to the floor
C4_Witness ==
  /\ PotenciaDevuelta
  /\ "cpu" \in DOMAIN configuracion /\ "gpu" \notin DOMAIN configuracion
  /\ TdpCpu(configuracion["cpu"]) = Num(120)
  /\ resultado.valor = 300

C3_UmbralesPsu ==
  llamada.op = "verificar_compatibilidad_completa"
    /\ "psu" \in DOMAIN configuracion /\ VatiosPsu(configuracion) > 0
  => LET w == VatiosPsu(configuracion)
         r == calcular_potencia_requerida(configuracion)
         error == Contiene(resultado.errores, ErrPsu)
         aviso == Contiene(resultado.advertencias, AdvPsuMargen)
     IN /\ resultado.estado = Returned
        /\ error <=> w < r
        /\ (aviso /\ ~error) <=> (r <= w /\ 10 * w < 12 * r)
        /\ (~aviso /\ ~error) <=> 10 * w >= 12 * r
        /\ ~Contiene(resultado.advertencias, AdvPsuPotencia)
        /\ r = 450 /\ w = 400 => error /\ ~aviso
        /\ r = 450 /\ w = 500 => aviso /\ ~error
        /\ r = 450 /\ w = 600 => ~aviso /\ ~error

\* the worked example: 500 W against an estimate of 450 W gives the warning
C3_Witness ==
  /\ VerificarDevuelto
  /\ "psu" \in DOMAIN configuracion /\ VatiosPsu(configuracion) = 500
  /\ calcular_potencia_requerida(configuracion) = 450
  /\ resultado.advertencias = <<AdvPsuMargen>>
  /\ resultado.errores = <<>>

----------------------------------------------------------------------------
(* Claims about null fields in the validators and the PSU filter (Spec) *)

\* the record without its null fields, at every depth: what the record would be
\* had those fields been absent
RECURSIVE SinNulos(_)
SinNulos(d) ==
  [k \in {x \in DOMAIN d : ~IsNone(d[x])} |->
     IF IsScalar(d[k]) THEN d[k] ELSE SinNulos(d[k])]

SinNulosLista(lista) == [i \in 1..Len(lista) |-> SinNulos(lista[i])]

\* the build without null fields
ConfiguracionSinNulos(cfg) ==
  [k \in DOMAIN cfg |->
     IF k \in {"ram_modules", "storage_devices"} THEN SinNulosLista(cfg[k])
     ELSE SinNulos(cfg[k])]

\* the catalog without null fields
DatosSinNulos(datos_) == [c \in DOMAIN datos_ |-> SinNulosLista(datos_[c])]

\* C10 as stated: the two validators and the PSU filter never raise, and a
\* numeric field that is null gives the result the call gives without the field.
C10_NuloComoAusente ==
  /\ llamada.op = "validar_dimensiones_fisicas" =>
       /\ resultado.estado = Returned
       /\ resultado = validar_dimensiones_fisicas(ConfiguracionSinNulos(configuracion))
  /\ llamada.op = "validar_conectividad" =>
       /\ resultado.estado = Returned
       /\ resultado = validar_conectividad(ConfiguracionSinNulos(configuracion))
  /\ llamada.op = "filtrar_psu_por_case_y_componentes" =>
       /\ resultado.estado = Returned
       /\ SinNulosLista(resultado.lista) =
            filtrar_psu_por_case_y_componentes(
              DatosSinNulos(datos),
              Get1(ConfiguracionSinNulos(configuracion), "case"),
              ConfiguracionSinNulos(configuracion)).lista

----------------------------------------------------------------------------
(* SpecDimensiones: validar_dimensiones_fisicas over lengths and heights     *)
(* around the limits of the case, for records in the shape the normalizers   *)
(* write and in the shape the validator reads                                *)

LargosGpu == <<0, 270, 271, 287, 288, 289, 300, 305, 319, 320, 321, 330>>

AlturasCooler == <<0, 144, 145, 159, 160, 161, 170>>

MuestrasDimensiones ==
  [DatosVacios EXCEPT
     !["gpu"] = [i \in 1..Len(LargosGpu) |-> GpuDimensiones(Num(LargosGpu[i]))]
                \o <<GpuN(Str("high_end"), Num(250), Num(330)),
                     GpuN(Str("mid_range"), Num(180), Num(300)),
                     EmptyDict>>,
     !["case"] = <<CaseN(Str("ATX"), Str("ATX"), Num(320), Num(160)),
                   CaseN(Str("ATX"), Str("ATX"), Num(300), Num(145)),
                   CaseN(Str("ATX"), Str("ATX"), Num(0), Num(0)),
                   [compatibility |-> EmptyDict],
                   EmptyDict>>,
     !["cpu_cooler"] =
        [i \in 1..Len(AlturasCooler) |-> CoolerDimensiones(Num(AlturasCooler[i]))]
        \o <<CoolerN(Num(170)), CoolerN(Num(150)), EmptyDict>>]

InitDimensiones ==
  /\ datos = DatosVacios
  /\ configuracion = EmptyDict
  /\ llamada = Ninguna
  /\ resultado = SinResultado
  /\ semilla = SemillaInicial
  /\ anterior = SinHistoria

\* the build takes any of the records of MuestrasDimensiones
SeleccionarDimensiones == SeleccionarDe(MuestrasDimensiones)

NextDimensiones ==
  \/ SeleccionarDimensiones
  \/ ValidarDimensionesFisicas

SpecDimensiones == InitDimensiones /\ [][NextDimensiones]_vars

----------------------------------------------------------------------------
(* Claims about validar_dimensiones_fisicas (SpecDimensiones) *)

DimensionesDevuelto ==
  llamada.op = "validar_dimensiones_fisicas" /\ resultado.estado = Returned

\* the number under record[a][b].value, 0 when there is none
ValorEn(record, a, b) ==
  LET x == Get1(Get(Get(record, a, EmptyDict), b, EmptyDict), "value")
  IN IF IsNum(x) THEN x.v ELSE 0

\* the length of the GPU: where the catalog carries it (physical.length) or under
\* dimensions.length
LargoGpu(gpu) ==
  IF ValorEn(gpu, "physical", "length") > 0 THEN ValorEn(gpu, "physical", "length")
  ELSE ValorEn(gpu, "dimensions", "length")

\* the height of the cooler: where the catalog carries it (specifications.height)
\* or under dimensions.height
AlturaCooler(cooler) ==
  IF ValorEn(cooler, "specifications", "height") > 0
  THEN ValorEn(cooler, "specifications", "height")
  ELSE ValorEn(cooler, "dimensions", "height")

LimiteGpu(case) == ValorEn(case, "compatibility", "supported_gpu_length")
LimiteCooler(case) == ValorEn(case, "compatibility", "supported_cpu_cooler_height")

\* C11 as stated: with a GPU of positive length g and a case of positive limit m,
\* the report has the GPU error iff g > m, the GPU warning and no error iff
\* 0.9 m < g <= m, and neither iff g <= 0.9 m; never both.
C11_UmbralesGpu ==
  llamada.op = "validar_dimensiones_fisicas"
    /\ Par(configuracion, "gpu", "case")
    /\ LargoGpu(configuracion["gpu"]) > 0 /\ LimiteGpu(configuracion["case"]) > 0
  => LET g == LargoGpu(configuracion["gpu"])
         m == LimiteGpu(configuracion["case"])
         error == Contiene(resultado.errores, ErrGpuLarga)
         aviso == Contiene(resultado.advertencias, AdvGpuAjustada)
     IN /\ resultado.estado = Returned
        /\ error <=> g > m
        /\ (aviso /\ ~error) <=> (10 * g > 9 * m /\ g <= m)
        /\ (~aviso /\ ~error) <=> 10 * g <= 9 * m
        /\ ~(aviso /\ error)

\* a case of GPU limit 320 and a GPU whose record carries length g under
\* dimensions.length, the key the validator reads
Caso320(g) ==
  /\ llamada.op = "validar_dimensiones_fisicas"
  /\ Par(configuracion, "gpu", "case")
  /\ LimiteGpu(configuracion["case"]) = 320
  /\ ValorEn(configuracion["gpu"], "dimensions", "length") = g

ErrorGpu == Contiene(resultado.errores, ErrGpuLarga)
AvisoGpu == Contiene(resultado.advertencias, AdvGpuAjustada)

C13_AlturaCooler ==
  llamada.op = "validar_dimensiones_fisicas"
    /\ Par(configuracion, "cpu_cooler", "case")
    /\ AlturaCooler(configuracion["cpu_cooler"]) > 0
    /\ LimiteCooler(configuracion["case"]) > 0
  => /\ resultado.estado = Returned
     /\ Contiene(resultado.errores, ErrCoolerAlto)
          <=> AlturaCooler(configuracion["cpu_cooler"]) > LimiteCooler(configuracion["case"])
     /\ \A i \in 1..Len(resultado.advertencias) :
          resultado.advertencias[i] = AdvGpuAjustada

----------------------------------------------------------------------------
(* SpecConectividad: validar_conectividad over motherboards, lists of RAM    *)
(* modules and lists of storage devices                                      *)

\* SSDDataNormalizer writes the protocol under 'storage_specs' and no 'interface'
SsdN(protocol) == [storage_specs |-> [protocol |-> protocol]]

MuestrasConectividad ==
  [DatosVacios EXCEPT
     !["motherboard"] = <<MbN(Str("AM4"), Str("ATX"), Str("DDR4"), Num(2), Num(1)),
                          MbN(Str("AM4"), Str("ATX"), Str("DDR4"), Num(4), Num(2)),
                          MbN(Str("AM4"), Str("ATX"), Str("DDR4"), Num(0), Num(0)),
                          [platform |-> [socket |-> Str("AM4")]],
                          EmptyDict>>,
     !["ram"] = <<RamN(Str("DDR4"), Num(1)),
                  RamN(Str("DDR4"), Num(2)),
                  RamN(Str("DDR4"), Num(4)),
                  [memory_specs |-> [ram_type |-> [generation |-> Str("DDR4")]]],
                  EmptyDict>>,
     !["ssd"] = <<StorageN(Str("SATA")), StorageN(Str("NVMe")), StorageN(Str("sata")),
                  SsdN(Str("SATA"))>>]

InitConectividad ==
  /\ datos = DatosVacios
  /\ configuracion = EmptyDict
  /\ llamada = Ninguna
  /\ resultado = SinResultado
  /\ semilla = SemillaInicial
  /\ anterior = SinHistoria

\* the motherboard of the build is any of the motherboards of MuestrasConectividad
SeleccionarMotherboard ==
  SeleccionarDe([DatosVacios EXCEPT
                   !["motherboard"] = MuestrasConectividad["motherboard"]])

AgregarRamModuleConectividad == AgregarRamModuleDe(MuestrasConectividad["ram"])

AgregarStorageDeviceConectividad == AgregarStorageDeviceDe(MuestrasConectividad["ssd"])

NextConectividad ==
  \/ SeleccionarMotherboard
  \/ AgregarRamModuleConectividad
  \/ AgregarStorageDeviceConectividad
  \/ ValidarConectividad

SpecConectividad == InitConectividad /\ [][NextConectividad]_vars

----------------------------------------------------------------------------
(* Claims about validar_conectividad (SpecConectividad) *)

\* the sticks of the modules from position i on: the count of each module, 1 for
\* a module without one
RECURSIVE SticksDesde(_, _)
SticksDesde(modulos, i) ==
  IF i > Len(modulos) THEN 0
  ELSE LET sticks == Get1(Get(modulos[i], "memory_specs", EmptyDict), "sticks")
       IN (IF IsNum(sticks) THEN sticks.v ELSE 1) + SticksDesde(modulos, i + 1)

\* the devices whose interface is exactly 'SATA'
DispositivosSata(dispositivos) ==
  Cardinality({i \in 1..Len(dispositivos) :
                 Get1(dispositivos[i], "interface") = Str("SATA")})

\* the build has a motherboard (not an empty record)
ConMotherboard ==
  "motherboard" \in DOMAIN configuracion /\ configuracion["motherboard"] # EmptyDict

\* the count the motherboard declares under grupo.campo, 0 when it declares none
Declarado(grupo, campo) ==
  LET n == Get1(Get(configuracion["motherboard"], grupo, EmptyDict), campo)
  IN IF IsNum(n) THEN n.v ELSE 0

SinMotherboard ==
  "motherboard" \notin DOMAIN configuracion \/ configuracion["motherboard"] = EmptyDict

ModulosRam == Get(configuracion, "ram_modules", <<>>)
Dispositivos == Get(configuracion, "storage_devices", <<>>)

\* C14: validar_conectividad adds the RAM-slot error iff there are a motherboard
\* and a non-empty module list whose stick counts (1 for a module without a
\* count) sum to more than the motherboard's RAM slots (0 when it declares
\* none), and the SATA error iff there are a motherboard and a non-empty device
\* list with more devices of
\* interface exactly 'SATA' than the motherboard has SATA ports; each decision
\* is independent of the other, and nothing is added without a motherboard or
\* with an empty list.
C14_Conectividad ==
  llamada.op = "validar_conectividad" =>
    /\ resultado.estado = Returned
    /\ resultado.advertencias = <<>>
    /\ ConMotherboard =>
         /\ Contiene(resultado.errores, ErrSlotsRam)
              <=> /\ ModulosRam # <<>>
                  /\ SticksDesde(ModulosRam, 1) > Declarado("memory", "slots")
         /\ Contiene(resultado.errores, ErrPuertosSata)
              <=> /\ Dispositivos # <<>>
                  /\ DispositivosSata(Dispositivos) > Declarado("connectivity", "sata_ports")
    /\ SinMotherboard => resultado.errores = <<>>
    /\ ModulosRam = <<>> => ~Contiene(resultado.errores, ErrSlotsRam)
    /\ Dispositivos = <<>> => ~Contiene(resultado.errores, ErrPuertosSata)
    /\ Cuenta(resultado.errores, ErrSlotsRam) <= 1
    /\ Cuenta(resultado.errores, ErrPuertosSata) <= 1

\* a module without a count next to a module of two sticks exceeds the two
\* slots, while a SATA device next to a device of another interface fits the
\* single port: the RAM-slot error alone
C14_Witness ==
  /\ llamada.op = "validar_conectividad" /\ resultado.estado = Returned
  /\ ConMotherboard
  /\ Declarado("memory", "slots") = 2
  /\ Declarado("connectivity", "sata_ports") = 1
  /\ \E i \in 1..Len(ModulosRam) : "sticks" \notin DOMAIN Get(ModulosRam[i], "memory_specs", EmptyDict)
  /\ SticksDesde(ModulosRam, 1) = 3
  /\ Len(Dispositivos) = 2 /\ DispositivosSata(Dispositivos) = 1
  /\ resultado.errores = <<ErrSlotsRam>>

----------------------------------------------------------------------------
(* SpecFiltros: the catalog filters of GestorFiltros over several catalogs,  *)
(* under every hash order                                                   *)

\* the PSU rows of the catalogs: wattages on both sides of 1.2 times the
\* estimates the builds below reach, with declared, empty and missing form
\* factors and one row without wattage
PsusFiltros ==
  <<PsuN(Num(359), Str("ATX")),
    PsuN(Num(360), Str("ATX")),
    PsuN(Num(360), Str("SFX")),
    PsuN(Num(395), Str("ATX")),
    PsuN(Num(396), Str("")),
    PsuN(Num(473), Str("ATX")),
    PsuN(Num(474), Str("SFX")),
    PsuN(Num(696), Str("atx")),
    PsuN(Num(876), Str("ATX")),
    [power |-> [wattage |-> Dimension(Num(900))]],
    [form_factor |-> Str("ATX")]>>

\* the CPU rows of the catalogs: both producers, one written in lower case and
\* one row without producer
CpusFiltros ==
  <<CpuDe(Str("AMD"), Str("AM4"), Num(65)),
    CpuDe(Str("Intel"), Str("LGA1700"), Num(125)),
    CpuDe(Str("amd"), Str("AM4"), Num(105)),
    CpuDe(Str(""), Str(""), None),
    CpuDe(Str("AMD"), Str("AM5"), Num(120)),
    CpuN(Str("AM4"), Num(65))>>

\* the case rows of the catalogs: every size of the table in no particular
\* order, an alias, an unrecognized name and cases that declare no support
CasesFiltros ==
  <<CaseN(Str("ATX"), Str("ATX"), Num(320), Num(160)),
    CaseN(Str("Mini-ITX"), Str("SFX"), Num(300), Num(70)),
    CaseN(Str("E-ATX"), Str("ATX"), Num(400), Num(180)),
    CaseN(Str(""), Str("ATX"), Num(320), Num(160)),
    CaseN(Str("mATX"), Str("ATX"), Num(300), Num(150)),
    CaseN(None, Str("ATX"), Num(320), Num(160)),
    CaseN(Str("Flex"), Str("Flex"), Num(200), Num(60)),
    CaseN(Str("XL-ATX"), Str("ATX"), Num(400), Num(180)),
    EmptyDict,
    CaseN(Str("Micro-ATX"), Str("ATX"), Num(300), Num(150))>>

\* two motherboards of one socket and form factor with different memory types
CatalogoMixto ==
  [DatosVacios EXCEPT
     !["cpu"] = CpusFiltros,
     !["case"] = CasesFiltros,
     !["motherboard"] = <<MbN(Str("AM4"), Str("ATX"), Str("DDR4"), Num(4), Num(4)),
                          MbN(Str("AM4"), Str("ATX"), Str("DDR5"), Num(4), Num(4)),
                          MbN(Str("AM4"), Str("Micro-ATX"), Str("DDR4"), Num(2), Num(2)),
                          MbN(Str("LGA1700"), Str("ATX"), Str("DDR5"), Num(4), Num(4)),
                          MbN(Str(""), Str(""), Str(""), Num(0), Num(0))>>,
     !["ram"] = <<RamN(Str("DDR4"), Num(2)),
                  RamN(Str("DDR5"), Num(2)),
                  RamN(Str("DDR3"), Num(1)),
                  RamN(Str(""), Num(1)),
                  RamN(Str("DDR4"), Num(4)),
                  EmptyDict>>,
     !["psu"] = PsusFiltros]

\* one memory type per socket and form factor
CatalogoUniforme ==
  [DatosVacios EXCEPT
     !["cpu"] = <<CpuDe(Str("Intel"), Str("LGA1700"), Num(125))>>,
     !["case"] = <<CaseN(Str("Mini-ITX"), Str("SFX"), Num(300), Num(70)),
                   CaseN(Str("ATX"), Str("ATX"), Num(320), Num(160)),
                   CaseN(Str("Micro-ATX"), Str("ATX"), Num(300), Num(150))>>,
     !["motherboard"] = <<MbN(Str("AM4"), Str("ATX"), Str("DDR4"), Num(4), Num(4)),
                          MbN(Str("LGA1700"), Str("Micro-ATX"), Str("DDR5"), Num(2), Num(2)),
                          MbN(Str("AM5"), Str("ATX"), Str("DDR5"), Num(4), Num(4)),
                          MbN(Str("AM4"), Str("ATX"), Str("DDR4"), Num(2), Num(6))>>,
     !["ram"] = <<RamN(Str("DDR5"), Num(2)),
                  RamN(Str("DDR4"), Num(2)),
                  RamN(Str("DDR4"), Num(1))>>,
     !["psu"] = PsusFiltros]

\* three memory types, and motherboards that declare no socket or no memory
CatalogoIncompleto ==
  [DatosVacios EXCEPT
     !["motherboard"] = <<MbN(Str("AM4"), Str("ATX"), Str("DDR3"), Num(4), Num(4)),
                          MbN(Str("AM4"), Str("ATX"), Str("DDR4"), Num(4), Num(4)),
                          MbN(Str("AM4"), Str("ATX"), Str("DDR5"), Num(4), Num(4)),
                          [platform |-> [socket |-> Str("AM4")], form_factor |-> Str("ATX")],
                          [form_factor |-> Str("Micro-ATX"),
                           memory |-> [type |-> Str("DDR4")]],
                          EmptyDict>>,
     !["ram"] = <<RamN(Str("DDR3"), Num(1)),
                  EmptyDict,
                  RamN(Str("DDR5"), Num(2))>>,
     !["psu"] = <<PsuN(Num(400), Str("SFX")), PsuN(Num(300), Str("ATX"))>>]

\* no motherboard at all
CatalogoSinMotherboards ==
  [DatosVacios EXCEPT
     !["ram"] = <<RamN(Str("DDR4"), Num(2)), RamN(Str("DDR5"), Num(2))>>]

CatalogosFiltros ==
  {CatalogoMixto, CatalogoUniforme, CatalogoIncompleto, CatalogoSinMotherboards}

\* the components a build takes before the PSU list is filtered
MuestrasFiltros ==
  [DatosVacios EXCEPT
     !["cpu"] = <<CpuN(Str("AM4"), Num(65)), CpuN(Str("AM4"), Num(250))>>,
     !["gpu"] = <<GpuN(Str("high_end"), Num(250), Num(300)),
                  GpuN(Str("flagship"), Num(450), Num(330))>>,
     !["case"] = <<CaseN(Str("ATX"), Str("ATX"), Num(320), Num(160)),
                   CaseN(Str("ATX"), Str("SFX"), Num(320), Num(160)),
                   CaseN(Str("ATX"), Str(""), Num(320), Num(160)),
                   CaseN(Str("ATX"), None, Num(320), Num(160)),
                   EmptyDict>>]

\* the socket and form-factor arguments of the filters
SocketsConsulta == {Str("AM4"), Str("am4"), Str("LGA1700"), Str("AM5"), Str("")}
FormFactorsConsulta == {Str("ATX"), Str("Micro-ATX"), Str("atx"), Str("")}

\* the producer arguments of the CPU filter
ArquitecturasConsulta == {Str("AMD"), Str("Intel"), Str("")}

\* the motherboard form factors the case filter is asked for
FormFactorsMotherboard ==
  {Str("E-ATX"), Str("XL-ATX"), Str("ATX"), Str("Micro-ATX"), Str("Mini-ITX"),
   Str("mATX"), Str("ITX"), Str("Flex"), Str(""), None}

InitFiltros ==
  /\ datos \in CatalogosFiltros
  /\ configuracion = EmptyDict
  /\ llamada = Ninguna
  /\ resultado = SinResultado
  /\ semilla \in Semillas
  /\ anterior = SinHistoria

SeleccionarFiltros == SeleccionarDe(MuestrasFiltros)

\* a motherboard filter that narrows the loaded catalog itself
FiltrarMotherboardsEnElCatalogo ==
  \E socket \in SocketsConsulta :
    /\ llamada' = [op |-> "filtrar_motherboards_por_socket", socket |-> socket]
    /\ resultado' = [estado |-> Returned,
                     lista |-> filtrar_motherboards_por_socket(datos, socket)]
    /\ datos' = [datos EXCEPT !["motherboard"] =
                                filtrar_motherboards_por_socket(datos, socket)]
    /\ Recordar
    /\ UNCHANGED <<configuracion, semilla>>

FiltrarMotherboardsPorSocket ==
  \E socket \in SocketsConsulta :
    /\ llamada' = [op |-> "filtrar_motherboards_por_socket", socket |-> socket]
    /\ resultado' = [estado |-> Returned,
                     lista |-> filtrar_motherboards_por_socket(datos, socket)]
    /\ Recordar
    /\ UNCHANGED <<datos, configuracion, semilla>>

\* a CPU filter that narrows the list the CPU filter returned just before
FiltrarCpusSobreLoFiltrado ==
  \E arquitectura \in ArquitecturasConsulta :
    /\ llamada' = [op |-> "filtrar_cpus_por_arquitectura", arquitectura |-> arquitectura]
    /\ resultado' =
         [estado |-> Returned,
          lista |-> filtrar_cpus_por_arquitectura(
                      IF llamada.op = "filtrar_cpus_por_arquitectura"
                      THEN [datos EXCEPT !["cpu"] = resultado.lista]
                      ELSE datos,
                      arquitectura)]
    /\ Recordar
    /\ UNCHANGED <<datos, configuracion, semilla>>

FiltrarCpusPorArquitectura ==
  \E arquitectura \in ArquitecturasConsulta :
    /\ llamada' = [op |-> "filtrar_cpus_por_arquitectura", arquitectura |-> arquitectura]
    /\ resultado' = [estado |-> Returned,
                     lista |-> filtrar_cpus_por_arquitectura(datos, arquitectura)]
    /\ Recordar
    /\ UNCHANGED <<datos, configuracion, semilla>>

FiltrarCasesPorMotherboardFormFactor ==
  \E form_factor \in FormFactorsMotherboard :
    /\ llamada' = [op |-> "filtrar_cases_por_motherboard_form_factor",
                   form_factor |-> form_factor]
    /\ resultado' = [estado |-> Returned,
                     lista |-> filtrar_cases_por_motherboard_form_factor(datos,
                                                                         form_factor)]
    /\ Recordar
    /\ UNCHANGED <<datos, configuracion, semilla>>

FiltrarRamPorMotherboard ==
  \E socket \in SocketsConsulta \cup {None},
     form_factor \in FormFactorsConsulta \cup {None} :
    /\ llamada' = [op |-> "filtrar_ram_por_motherboard",
                   socket |-> socket, form_factor |-> form_factor]
    /\ resultado' = filtrar_ram_por_motherboard(datos, socket, form_factor)
    /\ Recordar
    /\ UNCHANGED <<datos, configuracion, semilla>>

NextFiltros ==
  \/ FiltrarCpusPorArquitectura
  \/ FiltrarMotherboardsPorSocket
  \/ FiltrarCasesPorMotherboardFormFactor
  \/ FiltrarRamPorMotherboard
  \/ FiltrarPsuPorCaseYComponentes

SpecFiltros == InitFiltros /\ [][NextFiltros]_vars

\* SpecFiltroPsu: the PSU filter over the same catalogs and the builds of
\* MuestrasFiltros
NextFiltroPsu ==
  \/ SeleccionarFiltros
  \/ FiltrarPsuPorCaseYComponentes

SpecFiltroPsu == InitFiltros /\ [][NextFiltroPsu]_vars

----------------------------------------------------------------------------
(* Claims about the filters (SpecFiltros) *)

RamFiltrada ==
  llamada.op = "filtrar_ram_por_motherboard" /\ resultado.estado = Returned

\* the motherboards of the catalog the call was made for: their socket and
\* form factor are the arguments of the call
MotherboardsDeLaLlamada ==
  {mb \in {datos["motherboard"][i] : i \in 1..Len(datos["motherboard"])} :
     /\ Get1(Get(mb, "platform", EmptyDict), "socket") = llamada.socket
     /\ Get1(mb, "form_factor") = llamada.form_factor}

\* the build {motherboard: mb, ram: r} gets no RAM error
SinErrorRam(mb, r) ==
  ~Contiene(ErroresDe([motherboard |-> mb, ram |-> r], {"motherboard", "ram"}), ErrRam)

\* C15: every RAM entry returned by filtrar_ram_por_motherboard(mb.socket,
\* mb.form_factor) for a motherboard mb of the catalog has mb's memory type as
\* its generation, so the build of mb and that entry gets no RAM error from
\* verificar_compatibilidad_completa.
C15_RamFiltradaCompatible ==
  RamFiltrada =>
    \A mb \in MotherboardsDeLaLlamada :
      \A i \in 1..Len(resultado.lista) :
        /\ GeneracionRam([ram |-> resultado.lista[i]]) = TipoMemoriaMb([motherboard |-> mb])
        /\ SinErrorRam(mb, resultado.lista[i])

\* an argument is given when it is neither None nor the empty string
Dado(argumento) == ~IsNone(argumento) /\ argumento # Str("")

ElementosDe(lista) == {lista[i] : i \in 1..Len(lista)}

\* S: the memory types declared by the motherboards of the catalog that match
\* the socket of the call, if given, and its form factor, if given
TiposDeLaLlamada ==
  {TipoMemoriaMb([motherboard |-> mb]) :
     mb \in {m \in ElementosDe(datos["motherboard"]) :
               /\ Dado(llamada.socket) =>
                    Get1(Get(m, "platform", EmptyDict), "socket") = llamada.socket
               /\ Dado(llamada.form_factor) =>
                    Get1(m, "form_factor") = llamada.form_factor
               /\ ~Falta(TipoMemoriaMb([motherboard |-> m]))}}

\* the entries of the RAM catalog from position i on whose generation is in S
RECURSIVE RamDeTipos(_, _, _)
RamDeTipos(rams, S, i) ==
  IF i > Len(rams) THEN <<>>
  ELSE (IF GeneracionRam([ram |-> rams[i]]) \in S THEN <<rams[i]>> ELSE <<>>)
       \o RamDeTipos(rams, S, i + 1)

\* C16: filtrar_ram_por_motherboard(socket, form_factor) returns exactly the RAM
\* entries of the catalog, in catalog order, whose generation is in S, the set of
\* memory types declared by the motherboards matching the socket (if given) and
\* the form factor (if given); the second component lists exactly the elements
\* of S, each once.
C16_RamDeTiposSoportados ==
  RamFiltrada =>
    /\ resultado.lista = RamDeTipos(datos["ram"], TiposDeLaLlamada, 1)
    /\ ElementosDe(resultado.tipos) = TiposDeLaLlamada
    /\ Len(resultado.tipos) = Cardinality(TiposDeLaLlamada)

\* only the socket is given: S holds two types, the entries of a third type and
\* the entries without generation are left out
C16_Witness ==
  /\ RamFiltrada
  /\ llamada.socket = Str("AM4") /\ llamada.form_factor = None
  /\ TiposDeLaLlamada = {Str("DDR4"), Str("DDR5")}
  /\ resultado.tipos = <<Str("DDR5"), Str("DDR4")>>
  /\ Len(resultado.lista) = 3
  /\ Len(datos["ram"]) = 6

PsuFiltrada ==
  llamada.op = "filtrar_psu_por_case_y_componentes" /\ resultado.estado = Returned

\* a case is given when the build holds a case record that is not empty
CaseDado == "case" \in DOMAIN configuracion /\ configuracion["case"] # EmptyDict

\* the PSU form factor the given case supports
SoportePsu == Get1(Get(configuracion["case"], "compatibility", EmptyDict), "power_supply")

\* the wattage of a PSU row, 0 for a row without one
VatiosDe(psu) ==
  LET w == Get1(Get(Get(psu, "power", EmptyDict), "wattage", EmptyDict), "value")
  IN IF IsNum(w) THEN w.v ELSE 0

\* wattage >= 1.2 times the estimate of the build
ConMargen(psu) == 10 * VatiosDe(psu) >= 12 * calcular_potencia_requerida(configuracion)

\* the rows of the PSU catalog from position i on that satisfy Cumple
RECURSIVE PsusQue(_, _, _)
PsusQue(Cumple(_), psus, i) ==
  IF i > Len(psus) THEN <<>>
  ELSE (IF Cumple(psus[i]) THEN <<psus[i]>> ELSE <<>>) \o PsusQue(Cumple, psus, i + 1)

\* the form factor of the row is the one the given case supports
FormFactorIgual(psu) == CaseDado => Get1(psu, "form_factor") = SoportePsu

\* the same, required only when the case and the row both declare a form factor
FormFactorIgualSiDeclarados(psu) ==
  CaseDado /\ ~Falta(SoportePsu) /\ ~Falta(Get1(psu, "form_factor"))
    => Get1(psu, "form_factor") = SoportePsu

CumpleOriginal(psu) == FormFactorIgual(psu) /\ ConMargen(psu)
CumpleDeclarados(psu) == FormFactorIgualSiDeclarados(psu) /\ ConMargen(psu)

MotherboardsFiltradas ==
  llamada.op = "filtrar_motherboards_por_socket" /\ resultado.estado = Returned

SocketDe(mb) == Get1(Get(mb, "platform", EmptyDict), "socket")

\* the motherboards of the catalog from position i on whose socket is the string s
RECURSIVE MotherboardsDeSocket(_, _, _)
MotherboardsDeSocket(mbs, s, i) ==
  IF i > Len(mbs) THEN <<>>
  ELSE (IF IsStr(SocketDe(mbs[i])) /\ SocketDe(mbs[i]).v = s THEN <<mbs[i]>> ELSE <<>>)
       \o MotherboardsDeSocket(mbs, s, i + 1)

\* C18: filtrar_motherboards_por_socket(s) returns exactly the motherboards of
\* the catalog whose socket is the string s, character for character; a query
\* for "am4" returns no motherboard whose socket is "AM4".
C18_SocketExacto ==
  llamada.op = "filtrar_motherboards_por_socket" =>
    /\ resultado.estado = Returned
    /\ resultado.lista = MotherboardsDeSocket(datos["motherboard"], llamada.socket.v, 1)
    /\ llamada.socket = Str("am4") =>
         \A mb \in ElementosDe(resultado.lista) : SocketDe(mb) # Str("AM4")

\* a catalog with AM4 motherboards queried for "am4": nothing is returned
C18_Witness ==
  /\ MotherboardsFiltradas
  /\ llamada.socket = Str("am4")
  /\ \E mb \in ElementosDe(datos["motherboard"]) : SocketDe(mb) = Str("AM4")
  /\ resultado.lista = <<>>

\* the lists the filter returns when the list just returned is the RAM catalog
\* and the arguments are those of the call
ListasAlRefiltrar ==
  {filtrar_ram_por_motherboard([datos EXCEPT !["ram"] = resultado.lista],
                               llamada.socket, llamada.form_factor).lista}

\* C19: filtering the RAM list that filtrar_ram_por_motherboard(socket,
\* form_factor) returned, with the same arguments and the same motherboards,
\* returns that list again.
C19_RefiltrarNoReduce ==
  RamFiltrada => ListasAlRefiltrar = {resultado.lista}

\* a call that narrowed the RAM catalog to a non-empty list
C19_Witness ==
  /\ RamFiltrada
  /\ resultado.lista # <<>>
  /\ Len(resultado.lista) < Len(datos["ram"])
  /\ Dado(llamada.socket) /\ Dado(llamada.form_factor)
  /\ ListasAlRefiltrar = {resultado.lista}

----------------------------------------------------------------------------
(* Claims about builds without pairs to compare (SpecVerificar) *)

\* the build holds none of the pairs (cpu, motherboard), (ram, motherboard),
\* (case, motherboard)
SinPares ==
  /\ ~Par(configuracion, "cpu", "motherboard")
  /\ ~Par(configuracion, "ram", "motherboard")
  /\ ~Par(configuracion, "case", "motherboard")

\* C20: verificar_compatibilidad_completa returns compatible = true with no
\* errors and no warnings for the empty build and for every build without a PSU
\* that holds none of the pairs (cpu, motherboard), (ram, motherboard), (case,
\* motherboard).
C20_SinParesCompatible ==
  llamada.op = "verificar_compatibilidad_completa"
    /\ "psu" \notin DOMAIN configuracion /\ SinPares
  => /\ resultado.estado = Returned
     /\ resultado.compatible = TRUE
     /\ resultado.errores = <<>>
     /\ resultado.advertencias = <<>>

\* a CPU, a RAM kit and a case without a motherboard and without a PSU, verified
C20_Witness ==
  /\ VerificarDevuelto
  /\ {"cpu", "ram", "case"} \subseteq DOMAIN configuracion
  /\ "motherboard" \notin DOMAIN configuracion /\ "psu" \notin DOMAIN configuracion
  /\ resultado.compatible = TRUE
  /\ resultado.errores = <<>> /\ resultado.advertencias = <<>>

----------------------------------------------------------------------------
(* SpecLlamadas: every filter and validator, in any order, on one catalog,   *)
(* with an earlier call kept for comparison, under two opposite hash orders  *)

\* the component of the builds: a motherboard
MuestrasLlamadas ==
  [DatosVacios EXCEPT
     !["motherboard"] = <<MbN(Str("LGA1700"), Str("Micro-ATX"), Str("DDR5"),
                              Num(2), Num(2))>>]

InitLlamadas ==
  /\ datos = CatalogoMixto
  /\ configuracion = EmptyDict
  /\ llamada = Ninguna
  /\ resultado = SinResultado
  /\ semilla \in {SemillaInicial, SemillaInversa}
  /\ anterior = HistoriaVacia

SeleccionarLlamadas == SeleccionarDe(MuestrasLlamadas)

NextLlamadas ==
  \/ SeleccionarLlamadas
  \/ FiltrarCpusPorArquitectura
  \/ FiltrarMotherboardsPorSocket
  \/ FiltrarRamPorMotherboard
  \/ FiltrarCasesPorMotherboardFormFactor
  \/ FiltrarPsuPorCaseYComponentes
  \/ CalcularPotenciaRequerida
  \/ VerificarCompatibilidadCompleta
  \/ ValidarDimensionesFisicas
  \/ ValidarConectividad

SpecLlamadas == InitLlamadas /\ [][NextLlamadas]_vars

----------------------------------------------------------------------------
(* Claims about sequences of calls (SpecLlamadas) *)

\* C21: no filter or validator call changes the loaded catalog or the build it
\* is given: across every step that is a call, datos and configuracion keep
\* their values.
C21_LlamadasNoModifican ==
  [][llamada'.op # "ninguna" => datos' = datos /\ configuracion' = configuracion]_vars

\* a call made after a different call on a build with a motherboard, the
\* catalog still the loaded one
C21_Witness ==
  /\ anterior.estado = "llamada" /\ anterior.otras
  /\ llamada.op \notin {"ninguna", anterior.llamada.op}
  /\ DOMAIN configuracion = {"motherboard"}
  /\ anterior.configuracion = configuracion
  /\ datos = CatalogoMixto

CategoriaDe(op) ==
  CASE op = "filtrar_cpus_por_arquitectura" -> "cpu"
    [] op = "filtrar_motherboards_por_socket" -> "motherboard"
    [] op = "filtrar_ram_por_motherboard" -> "ram"
    [] op = "filtrar_cases_por_motherboard_form_factor" -> "case"
    [] op = "filtrar_psu_por_case_y_componentes" -> "psu"

Filtros ==
  {"filtrar_cpus_por_arquitectura", "filtrar_motherboards_por_socket",
   "filtrar_ram_por_motherboard", "filtrar_cases_por_motherboard_form_factor",
   "filtrar_psu_por_case_y_componentes"}

\* a is b with some of its entries left out: the entries of a appear in b, in the
\* same order, each at a position of its own
RECURSIVE EsSubsecuencia(_, _)
EsSubsecuencia(a, b) ==
  IF a = <<>> THEN TRUE
  ELSE IF b = <<>> THEN FALSE
  ELSE IF Head(a) = Head(b) THEN EsSubsecuencia(Tail(a), Tail(b))
  ELSE EsSubsecuencia(a, Tail(b))

\* C23: the list returned by each of the five candidate filters is a
\* subsequence of its category of the catalog: catalog entries in catalog
\* order, none repeated or invented.
C23_Subsecuencia ==
  llamada.op \in Filtros =>
    /\ resultado.estado = Returned
    /\ EsSubsecuencia(resultado.lista, datos[CategoriaDe(llamada.op)])

\* the case filter asked for ATX: the first, third and eighth case of the
\* catalog, in that order
C23_Witness ==
  /\ llamada.op = "filtrar_cases_por_motherboard_form_factor"
  /\ llamada.form_factor = Str("ATX")
  /\ Len(datos["case"]) = 10
  /\ resultado.lista = <<datos["case"][1], datos["case"][3], datos["case"][8]>>


----------------------------------------------------------------------------
(* SpecEstimacion: the estimate over builds of all nine component types *)

MuestrasEstimacion ==
  [DatosVacios EXCEPT
     !["cpu"] = <<CpuN(Str("AM4"), Num(65)), CpuN(Str("AM4"), Num(250)), EmptyDict>>,
     !["gpu"] = <<GpuN(Str("high_end"), Num(250), Num(300)),
                  GpuN(Str("flagship"), None, Num(330))>>,
     !["motherboard"] = <<MbN(Str("AM4"), Str("ATX"), Str("DDR4"), Num(4), Num(4))>>,
     !["ram"] = <<RamN(Str("DDR4"), Num(2))>>,
     !["case"] = <<CaseN(Str("ATX"), Str("ATX"), Num(320), Num(160))>>,
     !["psu"] = <<PsuN(Num(650), Str("ATX"))>>,
     !["cpu_cooler"] = <<CoolerN(Num(150))>>,
     !["ssd"] = <<SsdN(Str("NVMe"))>>,
     !["hdd"] = <<StorageN(Str("SATA"))>>]

\* a component of any of the nine types is selected or replaced
SeleccionarComponente ==
  \E tipo \in Componentes :
    \E i \in 1..Len(MuestrasEstimacion[tipo]) :
      /\ configuracion' = Put(configuracion, tipo, MuestrasEstimacion[tipo][i])
      /\ llamada' = Ninguna
      /\ resultado' = SinResultado
      /\ UNCHANGED <<datos, semilla, anterior>>

NextEstimacion ==
  \/ SeleccionarComponente
  \/ CalcularPotenciaRequerida

SpecEstimacion == InitPotencia /\ [][NextEstimacion]_vars

----------------------------------------------------------------------------
(* Claims on the power-supply filter and the estimate *)

\* both form factors of the comparison are declared
AmbosDeclarados(psu) ==
  CaseDado /\ ~Falta(SoportePsu) /\ ~Falta(Get1(psu, "form_factor"))

\* C26 as stated: the power-supply filter compares the support of the case and
\* the form factor of the row with the predicate of the case filter
\* (normalization, aliases, size rule), so a case declaring "ATX" accepts a row
\* written "atx".
C26_MismoAlgoritmo ==
  PsuFiltrada =>
    \A psu \in ElementosDe(datos["psu"]) :
      AmbosDeclarados(psu) /\ ConMargen(psu) =>
        (psu \in ElementosDe(resultado.lista)
           <=> es_case_compatible_con_motherboard(SoportePsu, Get1(psu, "form_factor")))

\* C26, amended: the power-supply filter does not use the predicate of the
\* case filter; when the case and the row both declare a form factor, a row of
\* sufficient wattage is returned exactly when the two strings are equal as
\* written, so a row the predicate would accept under another spelling
\* ("atx" for a case declaring "ATX") is not returned.
C26_IgualdadComoEscrito ==
  PsuFiltrada =>
    \A psu \in ElementosDe(datos["psu"]) :
      AmbosDeclarados(psu) /\ ConMargen(psu) =>
        /\ psu \in ElementosDe(resultado.lista)
              <=> Get1(psu, "form_factor").v = SoportePsu.v
        /\ (/\ es_case_compatible_con_motherboard(SoportePsu, Get1(psu, "form_factor"))
            /\ Get1(psu, "form_factor") # SoportePsu)
              => psu \notin ElementosDe(resultado.lista)

\* an ATX case and a build estimated at 330 W: the 696 W row written "atx" is
\* left out although the predicate of the case filter accepts the pair, and
\* the 473 W row written "ATX" is returned
C26_Witness ==
  /\ PsuFiltrada
  /\ CaseDado /\ SoportePsu = Str("ATX")
  /\ calcular_potencia_requerida(configuracion) = 330
  /\ PsuN(Num(696), Str("atx")) \in ElementosDe(datos["psu"])
  /\ es_case_compatible_con_motherboard(Str("ATX"), Str("atx"))
  /\ PsuN(Num(696), Str("atx")) \notin ElementosDe(resultado.lista)
  /\ PsuN(Num(473), Str("ATX")) \in ElementosDe(resultado.lista)

\* the messages on the power supply after the row is selected into the build
MensajesPsu(psu) ==
  LET r == verificar_compatibilidad_completa(Put(configuracion, "psu", psu))
  IN IF r.estado # Returned THEN {"excepcion"}
     ELSE {m \in {ErrPsu, AdvPsuMargen, AdvPsuPotencia} :
             Contiene(r.errores, m) \/ Contiene(r.advertencias, m)}

\* C27: for a build without power supply, every row the power-supply filter
\* returns for the build and its case, once selected into the build, passes
\* the validation without a power-supply error and without a power-supply
\* warning.
C27_FiltradaSinMensajes ==
  PsuFiltrada /\ "psu" \notin DOMAIN configuracion =>
    \A psu \in ElementosDe(resultado.lista) : MensajesPsu(psu) = {}

\* a build of 65 W CPU and 250 W GPU (395 W, margin 474 W) with a case: the
\* rows returned start at 474 W, and the 473 W row left out would be warned
C27_Witness ==
  /\ PsuFiltrada
  /\ DOMAIN configuracion = {"cpu", "gpu", "case"}
  /\ calcular_potencia_requerida(configuracion) = 395
  /\ resultado.lista # <<>>
  /\ \A psu \in ElementosDe(resultado.lista) : MensajesPsu(psu) = {}
  /\ MensajesPsu(PsuN(Num(473), Str("ATX"))) = {AdvPsuMargen}

\* C28: the estimate is the estimate of the cpu and gpu entries of the build
\* alone, whatever motherboard, RAM, case, power supply, cooler or drives the
\* build holds; the empty build and a build with neither CPU nor GPU get 300.
C28_SoloCpuYGpu ==
  PotenciaDevuelta =>
    /\ resultado.valor =
         calcular_potencia_requerida(Solo(configuracion, {"cpu", "gpu"}))
    /\ DOMAIN configuracion \cap {"cpu", "gpu"} = {} => resultado.valor = 300

\* a build with a component of each of the nine types: the estimate is that
\* of the CPU and GPU alone
C28_Witness ==
  /\ PotenciaDevuelta
  /\ DOMAIN configuracion = Componentes
  /\ resultado.valor > 300
  /\ resultado.valor = calcular_potencia_requerida(Solo(configuracion, {"cpu", "gpu"}))

----------------------------------------------------------------------------
(* Claims on the case filter and on the RAM filter without matching boards *)

CasesFiltrados == llamada.op = "filtrar_cases_por_motherboard_form_factor"

\* the recognized form factors of the queries
Reconocidos ==
  {Str("E-ATX"), Str("XL-ATX"), Str("ATX"), Str("Micro-ATX"), Str("mATX"),
   Str("Mini-ITX"), Str("ITX")}

\* the place of a recognized form factor in the size hierarchy
Ordinal(form_factor) ==
  CASE form_factor = Str("E-ATX") -> 4
    [] form_factor = Str("XL-ATX") -> 3
    [] form_factor = Str("ATX") -> 2
    [] form_factor \in {Str("Micro-ATX"), Str("mATX")} -> 1
    [] form_factor \in {Str("Mini-ITX"), Str("ITX")} -> 0

\* the cases the filter returns for the form factor b on the same catalog
CasesPara(b) == ElementosDe(filtrar_cases_por_motherboard_form_factor(datos, b))

SoporteMotherboard(case) == Get1(Get(case, "compatibility", EmptyDict), "motherboard")

\* C29: for recognized form factors a and b with ordinal(a) >= ordinal(b) every
\* case returned for a is returned for b; a case whose motherboard support is
\* missing or empty is returned for no form factor; an empty query form factor
\* returns no case.
C29_Monotona ==
  CasesFiltrados =>
    /\ llamada.form_factor \in Reconocidos =>
         \A b \in Reconocidos :
           Ordinal(llamada.form_factor) >= Ordinal(b)
             => ElementosDe(resultado.lista) \subseteq CasesPara(b)
    /\ \A case \in ElementosDe(resultado.lista) : ~Falta(SoporteMotherboard(case))
    /\ Falta(llamada.form_factor) => resultado.lista = <<>>

\* the ten cases asked for ATX: the three cases returned are among the six
\* returned for Mini-ITX, and are more than the one returned for E-ATX
C29_Witness ==
  /\ CasesFiltrados
  /\ llamada.form_factor = Str("ATX")
  /\ Cardinality(ElementosDe(resultado.lista)) = 3
  /\ Cardinality(CasesPara(Str("Mini-ITX"))) = 6
  /\ Cardinality(CasesPara(Str("E-ATX"))) = 1
  /\ CasesPara(Str("E-ATX")) \subseteq ElementosDe(resultado.lista)
  /\ ElementosDe(resultado.lista) \subseteq CasesPara(Str("Mini-ITX"))

\* the motherboards of the catalog that match the arguments of the call; an
\* argument that is None or '' restricts nothing
Coinciden ==
  {mb \in ElementosDe(datos["motherboard"]) :
     /\ Falta(llamada.socket)
          \/ Get1(Get(mb, "platform", EmptyDict), "socket") = llamada.socket
     /\ Falta(llamada.form_factor) \/ Get1(mb, "form_factor") = llamada.form_factor}

GeneracionDe(ram) ==
  Get1(Get(Get(ram, "memory_specs", EmptyDict), "ram_type", EmptyDict), "generation")

\* C30: when no motherboard of the catalog matches the socket and the form
\* factor, or none of those that match declares a memory type, the RAM filter
\* returns an empty RAM list and an empty list of types, not the RAM catalog;
\* a RAM entry without generation is never returned.
C30_SinMotherboardsSinRam ==
  RamFiltrada =>
    /\ (\A mb \in Coinciden : Falta(Get1(Get(mb, "memory", EmptyDict), "type")))
         => resultado.lista = <<>> /\ resultado.tipos = <<>>
    /\ \A ram \in ElementosDe(resultado.lista) : ~Falta(GeneracionDe(ram))

\* a catalog with motherboards and RAM asked for a socket no board has: both
\* lists are empty
C30_Witness ==
  /\ RamFiltrada
  /\ datos["motherboard"] # <<>>
  /\ datos["ram"] # <<>>
  /\ Coinciden = {}
  /\ resultado.lista = <<>>
  /\ resultado.tipos = <<>>

----------------------------------------------------------------------------
(* SocketSupport and CPUCoolerDataNormalizer._analyze_compatibility          *)
(* (etapa1_normalizar/clases.py).  The strings of this layer are sequences   *)
(* of characters, so that split, strip, upper, isdigit, startswith and `in`  *)
(* are computed character by character.                                      *)

MaxSockets == 2

\* s.upper()
Upper(s) ==
  [i \in 1..Len(s) |->
     IF \E j \in 1..Len(LowerCase) : LowerCase[j] = s[i]
     THEN UpperCase[CHOOSE j \in 1..Len(LowerCase) : LowerCase[j] = s[i]]
     ELSE s[i]]

\* s.isdigit(): false on the empty string
IsDigit(s) ==
  /\ s # <<>>
  /\ \A i \in 1..Len(s) : s[i] \in {"0","1","2","3","4","5","6","7","8","9"}

\* s.startswith(prefix)
StartsWith(s, prefix) ==
  /\ Len(prefix) <= Len(s)
  /\ SubSeq(s, 1, Len(prefix)) = prefix

\* x in s, for strings
Subcadena(s, x) ==
  \E i \in 0..(Len(s) - Len(x)) : SubSeq(s, i + 1, i + Len(x)) = x

\* SocketSupport.from_string(sockets_str).sockets, for the strings that the
\* reader of the table hands over
from_string(sockets_str) ==
  LET RECURSIVE Split(_, _)
      \* s.split(','), with actual the piece being read
      Split(s, actual) ==
        IF s = <<>> THEN <<actual>>
        ELSE IF Head(s) = "," THEN <<actual>> \o Split(Tail(s), <<>>)
        ELSE Split(Tail(s), Append(actual, Head(s)))
      RECURSIVE Limpiar(_)
      Limpiar(piezas) ==
        IF piezas = <<>> THEN <<>>
        ELSE IF Strip(Head(piezas)) # <<>>
             THEN <<Strip(Head(piezas))>> \o Limpiar(Tail(piezas))
             ELSE Limpiar(Tail(piezas))
  IN IF sockets_str = <<>> \/ Strip(sockets_str) = <<>>
     THEN <<>>
     ELSE Limpiar(Split(sockets_str, <<>>))

\* SocketSupport.get_socket_families(), on the list self.sockets
get_socket_families(sockets) ==
  LET EsIntel(socket) ==
        IsDigit(socket) \/ StartsWith(socket, <<"L","G","A">>)
      EsAmd(socket) ==
        \E x \in {<<"A","M">>, <<"F","M">>, <<"T","R","4">>,
                  <<"s","T","R","X","4">>} : Subcadena(Upper(socket), x)
      \* the branch of the if / elif / else taken for a socket
      Rama(socket) ==
        IF EsIntel(socket) THEN "intel"
        ELSE IF EsAmd(socket) THEN "amd"
        ELSE "ambas"
  IN [intel |-> SelectSeq(sockets, LAMBDA socket :
                   Rama(socket) \in {"intel", "ambas"}),
      amd |-> SelectSeq(sockets, LAMBDA socket :
                   Rama(socket) \in {"amd", "ambas"})]

\* _analyze_compatibility with `or` in place of `and`
analyze_compatibility_con_o(row) ==
  LET socket_families ==
        get_socket_families(from_string(Get(row, "Supported Sockets", <<>>)))
  IN [socket_families |-> socket_families,
      supports_intel |-> Len(socket_families.intel) > 0,
      supports_amd |-> Len(socket_families.amd) > 0,
      is_universal |-> Len(socket_families.intel) > 0
                         \/ Len(socket_families.amd) > 0]

\* CPUCoolerDataNormalizer._analyze_compatibility(row): the keys computed
\* from the sockets (cooler_type and thermal_factor come from other columns)
analyze_compatibility(row) ==
  LET socket_families ==
        get_socket_families(from_string(Get(row, "Supported Sockets", <<>>)))
  IN [socket_families |-> socket_families,
      supports_intel |-> Len(socket_families.intel) > 0,
      supports_amd |-> Len(socket_families.amd) > 0,
      is_universal |-> Len(socket_families.intel) > 0
                         /\ Len(socket_families.amd) > 0]

----------------------------------------------------------------------------
(* SpecCooler: the socket families of socket lists and of cooler rows *)

cAM4 == <<"A","M","4">>
cam4 == <<"a","m","4">>
cFM2 == <<"F","M","2","+">>
cTR4 == <<"T","R","4">>
csTRX4 == <<"s","T","R","X","4">>
cLGA1700 == <<"L","G","A","1","7","0","0">>
clga1700 == <<"l","g","a","1","7","0","0">>
c1151 == <<"1","1","5","1">>
cG34 == <<"G","3","4">>

\* the sockets combined into lists, and those used alone
SocketsCooler == {cAM4, cam4, csTRX4, cLGA1700, clga1700, c1151, cG34}

ListasDeSockets ==
  UNION {[1..n -> SocketsCooler] : n \in 0..MaxSockets}
    \cup {<<cFM2>>, <<cTR4>>}

\* sep.join(sockets)
RECURSIVE Unir(_, _)
Unir(sockets, sep) ==
  IF sockets = <<>> THEN <<>>
  ELSE IF Len(sockets) = 1 THEN Head(sockets)
  ELSE Head(sockets) \o sep \o Unir(Tail(sockets), sep)

Fila(sockets_str) == [x \in {"Supported Sockets"} |-> sockets_str]

\* rows of the cooler table: the column missing, blank, lists written with
\* commas, and lists with blanks and empty pieces around the commas
FilasCooler ==
  {EmptyDict, Fila(<<" ">>), Fila(<<" ", ",", " ">>),
   Fila(<<" ">> \o csTRX4 \o <<" ", ",", " ">>),
   Fila(cAM4 \o <<",", " ">> \o cLGA1700),
   Fila(cAM4 \o <<",", ",">> \o cG34 \o <<" ">>)}
    \cup {Fila(Unir(l, <<",">>)) : l \in ListasDeSockets}

GetSocketFamilies ==
  \E sockets \in ListasDeSockets :
    /\ llamada' = [op |-> "get_socket_families", sockets |-> sockets]
    /\ resultado' = [estado |-> Returned,
                     valor |-> get_socket_families(sockets)]
    /\ Recordar
    /\ UNCHANGED <<datos, configuracion, semilla>>

AnalyzeCompatibility ==
  \E row \in FilasCooler :
    /\ llamada' = [op |-> "_analyze_compatibility", row |-> row]
    /\ resultado' = [estado |-> Returned, valor |-> analyze_compatibility(row)]
    /\ Recordar
    /\ UNCHANGED <<datos, configuracion, semilla>>

NextCooler ==
  \/ GetSocketFamilies
  \/ AnalyzeCompatibility

SpecCooler == InitFormFactor /\ [][NextCooler]_vars

----------------------------------------------------------------------------
(* Claims on the socket families *)

FamiliasDevueltas == llamada.op = "get_socket_families"

EnLista(lista, x) == \E i \in 1..Len(lista) : lista[i] = x

\* the markers of an AMD socket, compared without regard to case
MarcaAmd(socket) ==
  \E x \in {<<"A","M">>, <<"F","M">>, <<"T","R","4">>, <<"s","T","R","X","4">>} :
    Subcadena(Lower(socket), Lower(x))

MarcaIntel(socket) == IsDigit(socket) \/ StartsWith(socket, <<"L","G","A">>)

\* C24: get_socket_families puts a socket in the Intel list only when it is
\* purely numeric or starts with 'LGA'; otherwise in the AMD list only when
\* it contains 'AM', 'FM', 'TR4' or 'sTRX4' compared case-insensitively (so
\* "sTRX4" is AMD only); otherwise in both lists.
C24_FamiliasDeSockets ==
  FamiliasDevueltas =>
    \A i \in 1..Len(llamada.sockets) :
      LET socket == llamada.sockets[i]
          intel == EnLista(resultado.valor.intel, socket)
          amd == EnLista(resultado.valor.amd, socket)
      IN IF MarcaIntel(socket) THEN intel /\ ~amd
         ELSE IF MarcaAmd(socket) THEN amd /\ ~intel
         ELSE intel /\ amd

\* the socket "sTRX4" classified: it is in the Intel list too
C24_sTRX4EnAmbas ==
  /\ FamiliasDevueltas
  /\ llamada.sockets = <<csTRX4>>
  /\ resultado.valor = [intel |-> <<csTRX4>>, amd |-> <<csTRX4>>]

CompatibilidadAnalizada == llamada.op = "_analyze_compatibility"

SocketsDeLaFila == from_string(Get(llamada.row, "Supported Sockets", <<>>))

\* C25: is_universal is true exactly when the socket list of the cooler
\* yields a non-empty Intel partition and a non-empty AMD partition; a cooler
\* with an empty socket list is never universal, and a single socket that is
\* neither an Intel nor an AMD socket makes the cooler universal.
C25_Universal ==
  CompatibilidadAnalizada =>
    LET v == resultado.valor
    IN /\ v.is_universal <=>
            (v.socket_families.intel # <<>> /\ v.socket_families.amd # <<>>)
       /\ v.supports_intel <=> (v.socket_families.intel # <<>>)
       /\ v.supports_amd <=> (v.socket_families.amd # <<>>)
       /\ v.socket_families = get_socket_families(SocketsDeLaFila)
       /\ SocketsDeLaFila = <<>> => ~v.is_universal
       /\ SocketsDeLaFila \in {<<cG34>>, <<clga1700>>} => v.is_universal

C25_Witness ==
  /\ CompatibilidadAnalizada
  /\ llamada.row = Fila(cG34)
  /\ resultado.valor.is_universal
  /\ resultado.valor.socket_families = [intel |-> <<cG34>>, amd |-> <<cG34>>]

====
